---- MODULE Spec2Model ----
(***************************************************************************)
(* Release-pipeline actions of albertocavalcante/actions:                  *)
(*   update-homebrew-tap  (src/update-homebrew-tap/src/types.ts)           *)
(*   compute-checksums    (src/unnamed/part_002)                           *)
(* Each action is one run() that reads its inputs, resolves checksums item *)
(* by item and sets outputs.  A run is modelled step by step: every await  *)
(* of the source is the end of one action.                                 *)
(*                                                                         *)
(* Strings on which the code computes (toLowerCase, trim, split, regular   *)
(* expressions, basename) are sequences of one-character strings; strings  *)
(* that are only compared are TLA+ strings.  A JavaScript value that may   *)
(* be undefined is a tagged record (Undefined, Str(s), ...).               *)
(***************************************************************************)
EXTENDS Integers, Sequences, FiniteSets, TLC

(***************************************************************************)
(* String literals                                                         *)
(***************************************************************************)
\* The string literals of update-homebrew-tap, as sequences of characters.
Lit ==
    [ darwin_aarch64 |-> <<"d","a","r","w","i","n","-","a","a","r","c","h","6","4">>,
      darwin_x86_64 |-> <<"d","a","r","w","i","n","-","x","8","6","_","6","4">>,
      darwin_amd64 |-> <<"d","a","r","w","i","n","-","a","m","d","6","4">>,
      macos_arm64 |-> <<"m","a","c","o","s","-","a","r","m","6","4">>,
      macos_x64 |-> <<"m","a","c","o","s","-","x","6","4">>,
      macos_amd64 |-> <<"m","a","c","o","s","-","a","m","d","6","4">>,
      linux_aarch64 |-> <<"l","i","n","u","x","-","a","a","r","c","h","6","4">>,
      linux_x86_64 |-> <<"l","i","n","u","x","-","x","8","6","_","6","4">>,
      linux_amd64 |-> <<"l","i","n","u","x","-","a","m","d","6","4">>,
      darwin_arm64 |-> <<"d","a","r","w","i","n","-","a","r","m","6","4">>,
      darwin_x64 |-> <<"d","a","r","w","i","n","-","x","6","4">>,
      linux_arm64 |-> <<"l","i","n","u","x","-","a","r","m","6","4">>,
      linux_x64 |-> <<"l","i","n","u","x","-","x","6","4">>,
      constructor |-> <<"c","o","n","s","t","r","u","c","t","o","r">>,
      proto |-> <<"_","_","p","r","o","t","o","_","_">>,
      function_Object |-> <<"f","u","n","c","t","i","o","n"," ","O","b","j","e","c","t","(",")"," ","{"," ","[","n","a","t","i","v","e"," ","c","o","d","e","]"," ","}">>,
      object_Object |-> <<"[","o","b","j","e","c","t"," ","O","b","j","e","c","t","]">>,
      Darwin_X64 |-> <<"D","a","r","w","i","n","-","X","6","4">>,
      owner_repo |-> <<"o","w","n","e","r","/","r","e","p","o">>,
      owner |-> <<"o","w","n","e","r">>,
      owner_slash |-> <<"o","w","n","e","r","/">>,
      slash_repo |-> <<"/","r","e","p","o">>,
      owner_repo_extra |-> <<"o","w","n","e","r","/","r","e","p","o","/","e","x","t","r","a">>,
      dot_sha256 |-> <<".","s","h","a","2","5","6">>,
      given_sha |-> <<"a","b","c","1","2","3">>,
      not_found |-> <<"N","o","t"," ","F","o","u","n","d">>,
      name_suffix |-> <<" "," ","a",".","t","g","z","\n">>,
      url_prefix |-> <<"h","t","t","p","s",":","/","/","h","/","r","/","a">>,
      dot_tgz |-> <<".","t","g","z">>,
      v1_2_3 |-> <<"v","1",".","2",".","3">>,
      myapp |-> <<"m","y","a","p","p">>,
      plain_1_2_3 |-> <<"1",".","2",".","3">>,
      windows_x64 |-> <<"w","i","n","d","o","w","s","-","x","6","4">> ]

\* The string literals of compute-checksums.
SumsLit ==
    [ url_a |-> <<"h","t","t","p","s",":","/","/","h","/","r","/","a",".","t","g","z">>,
      url_b |-> <<"h","t","t","p","s",":","/","/","h","/","r","/","b",".","t","g","z">>,
      file_a |-> <<"/","w","/","d","1","/","a",".","t","g","z">>,
      file_a2 |-> <<"/","w","/","d","2","/","a",".","t","g","z">>,
      file_side |-> <<"/","w","/","d","1","/","a",".","t","g","z",".","s","h","a","2","5","6">>,
      id_mac |-> <<"m","a","c">>,
      id_linux |-> <<"l","i","n","u","x">>,
      checksums_json |-> <<"c","h","e","c","k","s","u","m","s",".","j","s","o","n">> ]

(***************************************************************************)
(* JavaScript values and string primitives                                 *)
(***************************************************************************)
Undefined == [t |-> "undefined"]
Null == [t |-> "null"]
Str(s) == [t |-> "string", s |-> s]
ObjectConstructor == [t |-> "function", name |-> "Object"]
ObjectPrototype == [t |-> "object", name |-> "Object.prototype"]

\* ToBoolean: undefined, null and "" are falsy, objects and functions truthy.
Truthy(v) ==
    CASE v.t = "undefined" -> FALSE
      [] v.t = "null" -> FALSE
      [] v.t = "string" -> v.s # <<>>
      [] OTHER -> TRUE

\* ToPropertyKey / String(v): the string a value becomes when used as a key.
ToPropertyKey(v) ==
    CASE v.t = "string" -> v.s
      [] v.t = "function" -> Lit.function_Object
      [] OTHER -> Lit.object_Object

UpperChars ==
    <<"A","B","C","D","E","F","G","H","I","J","K","L","M",
      "N","O","P","Q","R","S","T","U","V","W","X","Y","Z">>
LowerChars ==
    <<"a","b","c","d","e","f","g","h","i","j","k","l","m",
      "n","o","p","q","r","s","t","u","v","w","x","y","z">>
LowerOf ==
    [c \in {UpperChars[i] : i \in DOMAIN UpperChars} |->
        LowerChars[CHOOSE i \in DOMAIN UpperChars : UpperChars[i] = c]]
LowerChar(c) == IF c \in DOMAIN LowerOf THEN LowerOf[c] ELSE c
ToLowerCase(s) == [i \in 1..Len(s) |-> LowerChar(s[i])]
IsLowerCase(s) == ToLowerCase(s) = s

Whitespace == {" ", "\t", "\n", "\r"}
RECURSIVE TrimStart(_)
TrimStart(s) ==
    IF s # <<>> /\ Head(s) \in Whitespace THEN TrimStart(Tail(s)) ELSE s
RECURSIVE TrimEnd(_)
TrimEnd(s) ==
    IF s # <<>> /\ s[Len(s)] \in Whitespace
    THEN TrimEnd(SubSeq(s, 1, Len(s) - 1))
    ELSE s
Trim(s) == TrimEnd(TrimStart(s))

StartsWith(s, p) == Len(s) >= Len(p) /\ SubSeq(s, 1, Len(p)) = p
EndsWith(s, p) ==
    Len(s) >= Len(p) /\ SubSeq(s, Len(s) - Len(p) + 1, Len(s)) = p

\* s.split(sep) for a one-character separator.
RECURSIVE Split(_, _)
Split(s, sep) ==
    IF \E i \in 1..Len(s) : s[i] = sep
    THEN LET i == CHOOSE i \in 1..Len(s) :
                      s[i] = sep /\ \A j \in 1..(i - 1) : s[j] # sep
         IN  <<SubSeq(s, 1, i - 1)>> \o Split(SubSeq(s, i + 1, Len(s)), sep)
    ELSE <<s>>

\* A string of n copies of the character c.
Rep(c, n) == [i \in 1..n |-> c]

\* obj[k] = v on an object kept as its Object.entries list: an existing key
\* keeps its place and takes the new value, a new key goes last.
ObjectHas(obj, k) == \E i \in 1..Len(obj) : obj[i].k = k
ObjectGet(obj, k) ==
    IF ObjectHas(obj, k)
    THEN obj[CHOOSE i \in 1..Len(obj) : obj[i].k = k].v
    ELSE Undefined
ObjectSetAppendOnly(obj, k, v) ==
    IF ObjectHas(obj, k) THEN obj ELSE Append(obj, [k |-> k, v |-> v])
ObjectSet(obj, k, v) ==
    IF ObjectHas(obj, k)
    THEN [i \in 1..Len(obj) |-> IF obj[i].k = k THEN [k |-> k, v |-> v] ELSE obj[i]]
    ELSE Append(obj, [k |-> k, v |-> v])

(***************************************************************************)
(* Platform Normalizer (types.ts)                                          *)
(***************************************************************************)
PLATFORM_ALIASES ==
    (Lit.darwin_aarch64 :> Lit.darwin_arm64) @@
    (Lit.darwin_x86_64 :> Lit.darwin_x64) @@
    (Lit.darwin_amd64 :> Lit.darwin_x64) @@
    (Lit.macos_arm64 :> Lit.darwin_arm64) @@
    (Lit.macos_x64 :> Lit.darwin_x64) @@
    (Lit.macos_amd64 :> Lit.darwin_x64) @@
    (Lit.linux_aarch64 :> Lit.linux_arm64) @@
    (Lit.linux_x86_64 :> Lit.linux_x64) @@
    (Lit.linux_amd64 :> Lit.linux_x64)

\* PLATFORM_ALIASES[key]: the table is an object literal, so a key that is
\* not its own property is looked up on Object.prototype.
AliasLookup(key) ==
    IF key \in DOMAIN PLATFORM_ALIASES THEN Str(PLATFORM_ALIASES[key])
    ELSE IF key = Lit.constructor THEN ObjectConstructor
    ELSE IF key = Lit.proto THEN ObjectPrototype
    ELSE Undefined

normalizePlatform(platform) ==
    LET lower == ToLowerCase(platform)
        alias == AliasLookup(lower)
    IN  IF Truthy(alias) THEN alias ELSE Str(lower)

(***************************************************************************)
(* Sidecar hash files                                                      *)
(***************************************************************************)
HashHexLen == 64
HexChars ==
    {"0","1","2","3","4","5","6","7","8","9",
     "a","b","c","d","e","f","A","B","C","D","E","F"}

\* content.match(/^([a-f0-9]{64})/i): group 1, or null.
MatchSha256(content) ==
    IF Len(content) >= HashHexLen
       /\ \A i \in 1..HashHexLen : content[i] \in HexChars
    THEN Str(SubSeq(content, 1, HashHexLen))
    ELSE Null

\* What the network answers to fetch(url): a transport exception, or a
\* response with a status and a body.
HexLower == Rep("a", HashHexLen)
HexUpper == Rep("A", HashHexLen)
SidecarBodies ==
    { HexLower \o Lit.name_suffix,
      HexUpper,
      <<" ">> \o HexLower \o <<"\n">>,
      Rep("a", HashHexLen + 1),
      Rep("a", HashHexLen - 1),
      Lit.not_found,
      <<>> }
FetchResponses ==
    {[kind |-> "throw"], [kind |-> "response", ok |-> FALSE, status |-> 404]}
    \cup {[kind |-> "response", ok |-> TRUE, status |-> 200, body |-> b] :
            b \in SidecarBodies}

LogEntry(level, msg, about) == [level |-> level, msg |-> msg, about |-> about]

\* update-homebrew-tap fetchSha256(url), given the answer to fetch(url + ".sha256"):
\* the value returned and the warnings logged (core.debug calls are not kept).
fetchSha256(url, resp) ==
    LET sha256Url == url \o Lit.dot_sha256
    IN  IF resp.kind = "throw"
        THEN [value |-> Undefined, log |-> {}]
        ELSE IF ~resp.ok
        THEN [value |-> Undefined, log |-> {}]
        ELSE LET match == MatchSha256(Trim(resp.body))
             IN  IF match # Null
                 THEN [value |-> Str(ToLowerCase(match.s)), log |-> {}]
                 ELSE [value |-> Undefined,
                       log |-> {LogEntry("warning", "Invalid SHA256 format", sha256Url)}]

(***************************************************************************)
(* State                                                                   *)
(***************************************************************************)
VARIABLES
    inputs,       \* the action's inputs, fixed for the run
    pc,           \* where run() stands
    idx,          \* index of the next item of the loop in progress
    assets,       \* processAssets: the Assets object being built
    existingSha,  \* updateTapRepo: revision found by the lookup
    outputs,      \* core.setOutput: name -> value
    failed,       \* core.setFailed: the messages, in order
    log,          \* core.info / core.warning calls
    net,          \* I/O issued: fetches, file reads and writes
    api,          \* calls made to the hosting API, in order
    checksums,    \* compute-checksums run: the merged ChecksumResult
    result,       \* compute-checksums process*: the ChecksumResult in progress
    resolved,     \* compute-checksums: how the item gone through last was resolved
    pending,      \* awaited operations that were issued and have not settled
    host          \* the tap repository: the commits made to the formula path

vars ==
    <<inputs, pc, idx, assets, existingSha, outputs, failed, log, net, api,
      checksums, result, resolved, pending, host>>
tapVars == <<assets, existingSha, api>>
sumsVars == <<checksums, result, resolved>>

NoOutputs == [n \in {} |-> Undefined]
setOutput(o, name, value) ==
    [n \in DOMAIN o \cup {name} |-> IF n = name THEN value ELSE o[n]]
IO(op, target) == [op |-> op, target |-> target]

\* run()'s catch: core.setFailed(error.message), and run() returns.
setFailed(message) ==
    /\ failed' = Append(failed, message)
    /\ pc' = "done"

(***************************************************************************)
(* update-homebrew-tap: inputs                                             *)
(***************************************************************************)
MaxAssets == 2

RawKeys == {Lit.darwin_amd64, Lit.Darwin_X64, Lit.linux_amd64, Lit.constructor}
AssetInfo(url, sha256, filename) ==
    [url |-> url, sha256 |-> sha256, filename |-> filename]
\* The asset of the i-th entry has a url of its own, so that entries can be
\* told apart; its sha256 is omitted, given or empty, and its url may be empty.
DigitChars == <<"1","2","3","4","5","6","7","8","9">>
AssetUrl(i) == Lit.url_prefix \o <<DigitChars[i]>> \o Lit.dot_tgz
RawInfosAt(i) ==
    { AssetInfo(AssetUrl(i), Undefined, Undefined),
      AssetInfo(AssetUrl(i), Str(Lit.given_sha), Str(Lit.myapp)),
      AssetInfo(AssetUrl(i), Str(<<>>), Undefined),
      AssetInfo(<<>>, Undefined, Undefined) }
\* JSON.parse gives an object: its keys are distinct, in document order.
RawAssetsObjects ==
    UNION { { e \in [1..n -> [k : RawKeys, v : UNION {RawInfosAt(i) : i \in 1..n}]] :
                /\ \A i, j \in 1..n : i # j => e[i].k # e[j].k
                /\ \A i \in 1..n : e[i].v \in RawInfosAt(i) } : n \in 0..MaxAssets }
AssetsInputs ==
    {[json |-> "missing"], [json |-> "invalid"]}
    \cup {[json |-> "object", entries |-> e] : e \in RawAssetsObjects}

TapRepoInputs ==
    {<<>>, Lit.owner_repo, Lit.owner, Lit.owner_slash, Lit.slash_repo, Lit.owner_repo_extra}
ValidScalars ==
    [tapRepo |-> Lit.owner_repo, formulaName |-> Lit.myapp, version |-> Lit.v1_2_3,
     githubToken |-> "token"]
TapScalars ==
    {[ValidScalars EXCEPT !.tapRepo = r] : r \in TapRepoInputs}
    \cup {[ValidScalars EXCEPT !.formulaName = <<>>],
          [ValidScalars EXCEPT !.version = <<>>],
          [ValidScalars EXCEPT !.version = Lit.plain_1_2_3],
          [ValidScalars EXCEPT !.githubToken = ""]}
TapInputs ==
    { [action |-> "update-homebrew-tap", tapRepo |-> s.tapRepo, formulaName |-> s.formulaName, version |-> s.version,
       githubToken |-> s.githubToken, assets |-> a, dryRun |-> d] :
        s \in TapScalars, a \in AssetsInputs, d \in {"true", "false"} }

rawAssets == inputs.assets.entries

InitTap ==
    /\ inputs \in TapInputs
    /\ pc = "run"
    /\ idx = 0
    /\ assets = <<>>
    /\ existingSha = Undefined
    /\ outputs = NoOutputs
    /\ failed = <<>>
    /\ log = {}
    /\ net = {}
    /\ api = <<>>
    /\ checksums = <<>>
    /\ result = <<>>
    /\ resolved = [source |-> "none"]
    /\ pending = {}
    /\ host = <<>>

(***************************************************************************)
(* update-homebrew-tap: run(), processAssets, buildContext, updateTapRepo  *)
(***************************************************************************)
\* The first input check of run() that throws, or "" when all pass.
TapInputErrorOwnerOnly(in) ==
    LET parts == Split(in.tapRepo, "/")
    IN  IF in.tapRepo = <<>> THEN "Input required and not supplied: tap-repo"
        ELSE IF in.formulaName = <<>>
        THEN "Input required and not supplied: formula-name"
        ELSE IF in.version = <<>> THEN "Input required and not supplied: version"
        ELSE IF in.assets.json = "missing"
        THEN "Input required and not supplied: assets"
        ELSE IF in.githubToken = ""
        THEN "Input required and not supplied: github-token"
        ELSE IF parts[1] = <<>> THEN "Invalid tap-repo format"
        ELSE IF in.assets.json = "invalid" THEN "Invalid assets JSON"
        ELSE ""
TapInputError(in) ==
    LET parts == Split(in.tapRepo, "/")
    IN  IF in.tapRepo = <<>> THEN "Input required and not supplied: tap-repo"
        ELSE IF in.formulaName = <<>>
        THEN "Input required and not supplied: formula-name"
        ELSE IF in.version = <<>> THEN "Input required and not supplied: version"
        ELSE IF in.assets.json = "missing"
        THEN "Input required and not supplied: assets"
        ELSE IF in.githubToken = ""
        THEN "Input required and not supplied: github-token"
        ELSE IF parts[1] = <<>> \/ Len(parts) < 2 \/ parts[2] = <<>>
        THEN "Invalid tap-repo format"
        ELSE IF in.assets.json = "invalid" THEN "Invalid assets JSON"
        ELSE ""

\* run(), from its start to the call of processAssets.
TapStart ==
    /\ inputs.action = "update-homebrew-tap"
    /\ pc = "run"
    /\ IF TapInputError(inputs) # ""
       THEN /\ setFailed(TapInputError(inputs))
            /\ UNCHANGED <<idx, log>>
       ELSE /\ pc' = "processAssets"
            /\ idx' = 1
            /\ log' = log \cup {LogEntry("info", "Processing platform assets", <<>>)}
            /\ UNCHANGED failed
    /\ UNCHANGED <<inputs, pending, host, outputs, net, tapVars, sumsVars>>

\* assets[normalizedPlatform] = {...info, sha256}
StoreAssetIfHashed(as, key, info, sha256) ==
    IF Truthy(sha256)
    THEN ObjectSet(as, key, [info EXCEPT !.sha256 = sha256])
    ELSE as
StoreAsset(as, key, info, sha256) ==
    ObjectSet(as, key, [info EXCEPT !.sha256 = sha256])

\* if (!sha256 && info.url)
ShouldFetchIgnoringUrl(info) == ~Truthy(info.sha256)
ShouldFetch(info) == ~Truthy(info.sha256) /\ info.url # <<>>

\* One iteration of the loop of processAssets.
ProcessAssetsStep ==
    /\ pc = "processAssets"
    /\ idx <= Len(rawAssets)
    /\ LET platform == rawAssets[idx].k
           info == rawAssets[idx].v
           normalizedPlatform == normalizePlatform(platform)
           key == ToPropertyKey(normalizedPlatform)
       IN  IF ShouldFetch(info)
           THEN \E resp \in FetchResponses :
                  LET fetched == fetchSha256(info.url, resp)
                      sha256 == fetched.value
                  IN  /\ net' = net \cup {IO("fetch", info.url \o Lit.dot_sha256)}
                      /\ log' = log
                           \cup {LogEntry("info", "Fetching SHA256 for", key)}
                           \cup fetched.log
                           \cup (IF ~Truthy(sha256)
                                 THEN {LogEntry("warning", "Could not fetch SHA256 for", key)}
                                 ELSE {})
                      /\ assets' = StoreAsset(assets, key, info, sha256)
           ELSE /\ assets' = StoreAsset(assets, key, info, info.sha256)
                /\ UNCHANGED <<net, log>>
    /\ idx' = idx + 1
    /\ UNCHANGED <<inputs, pending, host, pc, existingSha, outputs, failed, api, sumsVars>>

\* version.replace(/^v/, "")
StripVNone(version) == version
StripV(version) ==
    IF version # <<>> /\ Head(version) = "v" THEN Tail(version) ELSE version
Grouped(obj, prefixes) ==
    SelectSeq(obj, LAMBDA e : \E p \in prefixes : StartsWith(e.k, p))
buildContextOwnAmd64(name, version, as) ==
    [name |-> name,
     version |-> StripV(version),
     versionClean |-> StripV(version),
     assets |-> as,
     darwinArm64 |-> ObjectGet(as, Lit.darwin_arm64),
     darwinX64 |-> ObjectGet(as, Lit.darwin_x64),
     darwinAmd64 |-> ObjectGet(as, Lit.darwin_amd64),
     linuxArm64 |-> ObjectGet(as, Lit.linux_arm64),
     linuxX64 |-> ObjectGet(as, Lit.linux_x64),
     linuxAmd64 |-> ObjectGet(as, Lit.linux_amd64),
     macosAssets |-> Grouped(as, {<<"d","a","r","w","i","n","-">>, <<"m","a","c","o","s","-">>}),
     linuxAssets |-> Grouped(as, {<<"l","i","n","u","x","-">>})]
buildContext(name, version, as) ==
    [name |-> name,
     version |-> StripV(version),
     versionClean |-> StripV(version),
     assets |-> as,
     darwinArm64 |-> ObjectGet(as, Lit.darwin_arm64),
     darwinX64 |-> ObjectGet(as, Lit.darwin_x64),
     darwinAmd64 |-> ObjectGet(as, Lit.darwin_x64),
     linuxArm64 |-> ObjectGet(as, Lit.linux_arm64),
     linuxX64 |-> ObjectGet(as, Lit.linux_x64),
     linuxAmd64 |-> ObjectGet(as, Lit.linux_x64),
     macosAssets |-> Grouped(as, {<<"d","a","r","w","i","n","-">>, <<"m","a","c","o","s","-">>}),
     linuxAssets |-> Grouped(as, {<<"l","i","n","u","x","-">>})]

\* Which template run() loads: the default, or the file named by the template
\* input, which may be unreadable.
TemplateSources == {"default", "file", "file-unreadable"}

\* The default template applied to a context: the urls it renders, in the
\* order of the template. An {{#if}} block is rendered when the field holds
\* an asset. The darwin-x64 lines stand inside the darwin-arm64 block, and
\* the linux-arm64 lines inside the linux-x64 block.
DEFAULT_TEMPLATE(context) ==
    LET Has(field) == field # Undefined
        onMacos ==
            IF Has(context.darwinArm64)
            THEN <<context.darwinArm64.url>>
                 \o (IF Has(context.darwinX64) THEN <<context.darwinX64.url>> ELSE <<>>)
            ELSE <<>>
        onLinux ==
            IF Has(context.linuxX64)
            THEN IF Has(context.linuxArm64)
                 THEN <<context.linuxArm64.url, context.linuxX64.url>>
                 ELSE <<context.linuxX64.url>>
            ELSE <<>>
    IN  onMacos \o onLinux

\* const dryRun = core.getInput("dry-run") === "true"
DryRunIgnored(in) == FALSE
DryRun(in) == in.dryRun = "true"

\* run(), from the return of processAssets to the call of updateTapRepo.
Render ==
    /\ pc = "processAssets"
    /\ idx > Len(rawAssets)
    /\ \E tpl \in TemplateSources :
         IF tpl = "file-unreadable"
         THEN /\ setFailed("ENOENT: no such file or directory")
              /\ UNCHANGED <<outputs, log>>
         ELSE /\ outputs' =
                   setOutput(
                     setOutput(outputs, "formula-content",
                               [template |-> tpl,
                                context |-> buildContext(inputs.formulaName,
                                                         inputs.version, assets)]),
                     "formula-path", "Formula/<formula-name>.rb")
              /\ log' = log \cup {LogEntry("info", "Generated formula", <<>>)}
              /\ pc' = IF DryRun(inputs) THEN "done" ELSE "updateTapRepo"
              /\ UNCHANGED failed
    /\ UNCHANGED <<inputs, pending, host, idx, net, tapVars, sumsVars>>

\* What the host answers to repos.getContent.
LookupResponses ==
    {[kind |-> "file", sha |-> "blob1"], [kind |-> "array"]}
    \cup {[kind |-> "error", status |-> s] : s \in {404, 403, 0}}
\* What the host answers to repos.createOrUpdateFileContents.
WriteResponses ==
    {[kind |-> "ok", sha |-> "commit1", url |-> "https://host/commit1"],
     [kind |-> "error", status |-> 409]}

\* A call to the hosting API: the revision it carries and the host's answer.
ApiCall(op, sha, answer) == [op |-> op, sha |-> sha, answer |-> answer]

\* Whether the catch of updateTapRepo swallows a lookup error.
LookupErrorAlwaysSwallowed(status) == TRUE
LookupErrorSwallowed(status) == status = 404

\* updateTapRepo, the lookup: repos.getContent and its catch.
GetContent ==
    /\ pc = "updateTapRepo"
    /\ \E resp \in LookupResponses :
         /\ api' = Append(api, ApiCall("getContent", Undefined, resp))
         /\ IF resp.kind = "error" /\ ~LookupErrorSwallowed(resp.status)
            THEN /\ setFailed("getContent failed")
                 /\ UNCHANGED <<existingSha, log>>
            ELSE /\ existingSha' =
                      IF resp.kind = "file" THEN [t |-> "string", s |-> resp.sha]
                      ELSE Undefined
                 /\ log' = log \cup
                      (IF resp.kind = "file"
                       THEN {LogEntry("info", "Found existing formula", <<>>)}
                       ELSE IF resp.kind = "error"
                       THEN {LogEntry("info", "Creating new formula", <<>>)}
                       ELSE {})
                 /\ pc' = "createOrUpdate"
                 /\ UNCHANGED failed
    /\ UNCHANGED <<inputs, pending, host, idx, assets, outputs, net, sumsVars>>

\* updateTapRepo, the write, and run() to its end.
CreateOrUpdate ==
    /\ pc = "createOrUpdate"
    /\ \E resp \in WriteResponses :
         /\ api' = Append(api, ApiCall("createOrUpdateFileContents", existingSha, resp))
         /\ IF resp.kind = "error"
            THEN /\ setFailed("createOrUpdateFileContents failed")
                 /\ UNCHANGED <<outputs, log>>
            ELSE /\ outputs' =
                      setOutput(setOutput(outputs, "commit-sha", resp.sha),
                                "commit-url", resp.url)
                 /\ log' = log \cup {LogEntry("info", "Successfully updated formula", <<>>)}
                 /\ pc' = "done"
                 /\ UNCHANGED failed
    /\ UNCHANGED <<inputs, pending, host, idx, assets, existingSha, net, sumsVars>>

NextTap ==
    \/ TapStart
    \/ ProcessAssetsStep
    \/ Render
    \/ GetContent
    \/ CreateOrUpdate

SpecTap == InitTap /\ [][NextTap]_vars

(***************************************************************************)
(* compute-checksums (part_002): hashing                                   *)
(***************************************************************************)
\* A digest is kept symbolically, as the algorithm and the bytes it was fed:
\* two digests are equal exactly when both agree (no collisions).
CryptoDigest(algorithm, bytes) == [t |-> "hex", alg |-> algorithm, of |-> bytes]
createHash(algorithm) == [alg |-> algorithm, data |-> <<>>]
HashUpdate(hash, data) == [hash EXCEPT !.data = @ \o data]
HashDigest(hash) == CryptoDigest(hash.alg, hash.data)

\* fs.createReadStream delivers a file as chunks of at most ChunkSize bytes.
ChunkSize == 2
RECURSIVE ReadChunks(_)
ReadChunks(bytes) ==
    IF Len(bytes) <= ChunkSize
    THEN (IF bytes = <<>> THEN <<>> ELSE <<bytes>>)
    ELSE <<SubSeq(bytes, 1, ChunkSize)>>
         \o ReadChunks(SubSeq(bytes, ChunkSize + 1, Len(bytes)))

RECURSIVE UpdateAll(_, _)
UpdateAll(hash, chunks) ==
    IF chunks = <<>> THEN hash
    ELSE UpdateAll(HashUpdate(hash, Head(chunks)), Tail(chunks))

\* hashFile: every "data" chunk updates the hash, "end" resolves the digest.
hashFileLastChunk(bytes, algorithm) ==
    LET chunks == ReadChunks(bytes)
    IN  HashDigest(IF chunks = <<>> THEN createHash(algorithm)
                   ELSE HashUpdate(createHash(algorithm), chunks[Len(chunks)]))
hashFile(bytes, algorithm) ==
    HashDigest(UpdateAll(createHash(algorithm), ReadChunks(bytes)))

hashBuffer(buffer, algorithm) ==
    HashDigest(HashUpdate(createHash(algorithm), buffer))

\* readSha256File, given what is at filepath + ".sha256": a missing file makes
\* readFile throw, which the catch turns into undefined.
readSha256File(side) ==
    IF side.kind = "missing" THEN Undefined
    ELSE LET match == MatchSha256(Trim(side.body))
         IN  IF match # Null THEN Str(ToLowerCase(match.s)) ELSE Undefined

\* fetchSha256FromUrl, given the answer to fetch(url + ".sha256").
fetchSha256FromUrlVerbatim(resp) ==
    IF resp.kind = "throw" THEN Undefined
    ELSE IF ~resp.ok THEN Undefined
    ELSE LET match == MatchSha256(Trim(resp.body))
         IN  IF match # Null THEN Str(match.s) ELSE Undefined
fetchSha256FromUrl(resp) ==
    IF resp.kind = "throw" THEN Undefined
    ELSE IF ~resp.ok THEN Undefined
    ELSE LET match == MatchSha256(Trim(resp.body))
         IN  IF match # Null THEN Str(ToLowerCase(match.s)) ELSE Undefined

\* downloadUrl, given the answer to fetch(url): it throws on a transport
\* exception and on a response that is not ok.
downloadUrlLenient(resp) ==
    IF resp.kind = "response" /\ resp.ok
    THEN [threw |-> FALSE, buffer |-> resp.bytes]
    ELSE [threw |-> FALSE, buffer |-> <<>>]
downloadUrl(resp) ==
    IF resp.kind = "response" /\ resp.ok
    THEN [threw |-> FALSE, buffer |-> resp.bytes]
    ELSE [threw |-> TRUE, buffer |-> <<>>]

\* path.basename(filepath), and path.basename(new URL(url).pathname): the
\* part after the last "/".
Basename(path) ==
    LET parts == Split(path, "/") IN parts[Len(parts)]

(***************************************************************************)
(* compute-checksums: inputs and environment                               *)
(***************************************************************************)
MaxItems == 2

Contents == {<<7>>, <<1, 2, 3, 4, 5>>}
FileSidecars ==
    {[kind |-> "missing"]} \cup {[kind |-> "file", body |-> b] : b \in SidecarBodies}
FileContents ==
    {[kind |-> "error"]} \cup {[kind |-> "bytes", bytes |-> b] : b \in Contents}
DownloadResponses ==
    {[kind |-> "throw"], [kind |-> "response", ok |-> FALSE, status |-> 404]}
    \cup {[kind |-> "response", ok |-> TRUE, status |-> 200, bytes |-> b] :
            b \in Contents}
Unread == [kind |-> "unread"]

SeqsUpTo(S, n) == UNION {[1..m -> S] : m \in 0..n}
Distinct(s) == \A i, j \in 1..Len(s) : i # j => s[i] # s[j]

\* The files the glob matches: distinct paths.
FilePaths == {SumsLit.file_a, SumsLit.file_a2, SumsLit.file_side}
FilesInputs ==
    {[given |-> FALSE, matched |-> <<>>]}
    \cup {[given |-> TRUE, matched |-> l] :
            l \in {s \in SeqsUpTo(FilePaths, MaxItems) : Distinct(s)}}
SumsUrls == {SumsLit.url_a, SumsLit.url_b}
UrlsInputs ==
    {[json |-> "missing", urls |-> <<>>], [json |-> "invalid", urls |-> <<>>]}
    \cup {[json |-> "array", urls |-> l] : l \in SeqsUpTo(SumsUrls, MaxItems)}
UrlMapEntries == [k : {SumsLit.id_mac, SumsLit.id_linux}, v : SumsUrls]
UrlMapInputs ==
    {[json |-> "missing", entries |-> <<>>], [json |-> "invalid", entries |-> <<>>]}
    \cup {[json |-> "object", entries |-> l] :
            l \in {s \in SeqsUpTo(UrlMapEntries, MaxItems) :
                     \A i, j \in 1..Len(s) : i # j => s[i].k # s[j].k}}
SumsInputs ==
    { in \in [action : {"compute-checksums"}, files : FilesInputs, urls : UrlsInputs,
              urlMap : UrlMapInputs, readSha256Files : BOOLEAN,
              algorithm : {"sha256", "sha512", "md5"}] :
        Len(in.files.matched) + Len(in.urls.urls) + Len(in.urlMap.entries) <= MaxItems }

\* The resolution of the item the run went through last.
Resolution(source, index, ref, key, outcome, sidecar, content, value) ==
    [source |-> source, index |-> index, ref |-> ref, key |-> key,
     outcome |-> outcome, sidecar |-> sidecar, content |-> content, value |-> value]
NoResolution ==
    Resolution("none", 0, <<>>, <<>>, "none", Unread, Unread, Undefined)

InitSums ==
    /\ inputs \in SumsInputs
    /\ pc = "run"
    /\ idx = 0
    /\ assets = <<>>
    /\ existingSha = Undefined
    /\ outputs = NoOutputs
    /\ failed = <<>>
    /\ log = {}
    /\ net = {}
    /\ api = <<>>
    /\ checksums = <<>>
    /\ result = <<>>
    /\ resolved = NoResolution
    /\ pending = {}
    /\ host = <<>>

(***************************************************************************)
(* compute-checksums: run(), processFiles, processUrls, processUrlMap      *)
(***************************************************************************)
Goto(label) == [pc |-> label, error |-> ""]
Throw(message) == [pc |-> "done", error |-> message]

\* Where run() goes after the url-map block, after the urls block's
\* processing, after the files block's and from its start.
AfterUrlMap(in) == Goto("writeFile")
AfterUrls(in) ==
    IF in.urlMap.json = "missing" THEN AfterUrlMap(in)
    ELSE IF in.urlMap.json = "invalid" THEN Throw("Invalid url-map JSON")
    ELSE Goto("processUrlMap")
AfterFiles(in) ==
    IF in.urls.json = "missing" THEN AfterUrls(in)
    ELSE IF in.urls.json = "invalid" THEN Throw("Invalid urls JSON")
    ELSE Goto("processUrls")
AtStartUnchecked(in) ==
    IF in.files.given THEN Goto("processFiles") ELSE AfterFiles(in)
AtStart(in) ==
    IF ~in.files.given /\ in.urls.json = "missing" /\ in.urlMap.json = "missing"
    THEN Throw("At least one of 'files', 'urls', or 'url-map' must be provided")
    ELSE IF in.files.given THEN Goto("processFiles")
    ELSE AfterFiles(in)

\* Object.assign(checksums, source)
ObjectAssign(target, source) ==
    LET RECURSIVE Assign(_, _)
        Assign(t, n) ==
            IF n > Len(source) THEN t
            ELSE Assign(ObjectSet(t, source[n].k, source[n].v), n + 1)
    IN  Assign(target, 1)


\* run() up to its next await, with cs the checksums merged so far: it fails,
\* enters the loop of the next source, or sets the checksums output and
\* starts writing checksums.json.
Transfer(next, cs) ==
    /\ checksums' = cs
    /\ IF next.error # ""
       THEN /\ setFailed(next.error)
            /\ UNCHANGED <<idx, result, outputs, net>>
       ELSE IF next.pc = "writeFile"
       THEN /\ outputs' = setOutput(outputs, "checksums", cs)
            /\ net' = net \cup {IO("writeFile", SumsLit.checksums_json)}
            /\ pc' = "writeFile"
            /\ UNCHANGED <<idx, result, failed>>
       ELSE /\ pc' = next.pc
            /\ idx' = 1
            /\ result' = <<>>
            /\ UNCHANGED <<outputs, net, failed>>

SumsStart ==
    /\ inputs.action = "compute-checksums"
    /\ pc = "run"
    /\ Transfer(AtStart(inputs), checksums)
    /\ UNCHANGED <<inputs, pending, host, log, resolved, tapVars>>

\* Whether an item's sidecar is consulted: the read-sha256-files input alone
\* decides, the selected algorithm plays no part.
readSha256FilesForSha256(in) == in.readSha256Files /\ in.algorithm = "sha256"
readSha256Files(in) == in.readSha256Files

files == inputs.files.matched
urls == inputs.urls.urls
urlMap == inputs.urlMap.entries

\* One iteration of the loop of processFiles.
ProcessFilesStep ==
    /\ pc = "processFiles"
    /\ idx <= Len(files)
    /\ LET filepath == files[idx]
           filename == Basename(filepath)
       IN  IF EndsWith(filepath, Lit.dot_sha256)
           THEN /\ idx' = idx + 1
                /\ resolved' = Resolution("files", idx, filepath, filename, "skipped",
                                          Unread, Unread, Undefined)
                /\ UNCHANGED <<pc, result, failed, log, net>>
           ELSE \E side \in FileSidecars, content \in FileContents :
                  LET existingHash ==
                          IF readSha256Files(inputs) THEN readSha256File(side)
                          ELSE Undefined
                      probe ==
                          IF readSha256Files(inputs)
                          THEN {IO("readFile", filepath \o Lit.dot_sha256)}
                          ELSE {}
                      probed == IF readSha256Files(inputs) THEN side ELSE Unread
                  IN  IF Truthy(existingHash)
                      THEN /\ result' = ObjectSet(result, filename, existingHash)
                           /\ log' = log \cup
                                {LogEntry("info", "Read existing checksum for", filename)}
                           /\ net' = net \cup probe
                           /\ idx' = idx + 1
                           /\ resolved' = Resolution("files", idx, filepath, filename,
                                                     "sidecar", probed, Unread, existingHash)
                           /\ UNCHANGED <<pc, failed>>
                      ELSE /\ log' = log \cup {LogEntry("info", "Computing for", filename)}
                           /\ net' = net \cup probe \cup {IO("readStream", filepath)}
                           /\ IF content.kind = "error"
                              THEN /\ setFailed("ENOENT: no such file or directory")
                                   /\ resolved' = Resolution("files", idx, filepath, filename,
                                                             "threw", probed, content, Undefined)
                                   /\ UNCHANGED <<idx, result>>
                              ELSE /\ result' = ObjectSet(result, filename,
                                                  hashFile(content.bytes, inputs.algorithm))
                                   /\ idx' = idx + 1
                                   /\ resolved' = Resolution("files", idx, filepath, filename,
                                                     "computed", probed, content,
                                                     hashFile(content.bytes, inputs.algorithm))
                                   /\ UNCHANGED <<pc, failed>>
    /\ UNCHANGED <<inputs, pending, host, outputs, checksums, tapVars>>

\* processFiles returns, and run() goes on to its next await.
ProcessFilesReturn ==
    /\ pc = "processFiles"
    /\ idx > Len(files)
    /\ Transfer(AfterFiles(inputs), ObjectAssign(checksums, result))
    /\ UNCHANGED <<inputs, pending, host, log, resolved, tapVars>>

\* One iteration of the loop of processUrls (source "urls", keyed by the
\* basename of the url's path) or of processUrlMap (source "urlMap", keyed by
\* the identifier).
ProcessUrlItem(source, url, key) ==
    \E side \in FetchResponses, answer \in DownloadResponses :
      LET existingHash ==
              IF readSha256Files(inputs) THEN fetchSha256FromUrl(side) ELSE Undefined
          probe ==
              IF readSha256Files(inputs) THEN {IO("fetch", url \o Lit.dot_sha256)} ELSE {}
          probed == IF readSha256Files(inputs) THEN side ELSE Unread
          download == downloadUrl(answer)
      IN  IF Truthy(existingHash)
          THEN /\ result' = ObjectSet(result, key, existingHash)
               /\ log' = log \cup {LogEntry("info", "Fetched existing checksum for", key)}
               /\ net' = net \cup probe
               /\ idx' = idx + 1
               /\ resolved' = Resolution(source, idx, url, key, "sidecar", probed, Unread,
                                         existingHash)
               /\ UNCHANGED <<pc, failed>>
          ELSE /\ log' = log \cup {LogEntry("info", "Downloading and computing for", key)}
               /\ net' = net \cup probe \cup {IO("fetch", url)}
               /\ IF download.threw
                  THEN /\ setFailed("Failed to download")
                       /\ resolved' = Resolution(source, idx, url, key, "threw", probed,
                                                 answer, Undefined)
                       /\ UNCHANGED <<idx, result>>
                  ELSE /\ result' = ObjectSet(result, key,
                                      hashBuffer(download.buffer, inputs.algorithm))
                       /\ idx' = idx + 1
                       /\ resolved' = Resolution(source, idx, url, key, "computed", probed,
                                         answer,
                                         hashBuffer(download.buffer, inputs.algorithm))
                       /\ UNCHANGED <<pc, failed>>

ProcessUrlsStep ==
    /\ pc = "processUrls"
    /\ idx <= Len(urls)
    /\ ProcessUrlItem("urls", urls[idx], Basename(urls[idx]))
    /\ UNCHANGED <<inputs, pending, host, outputs, checksums, tapVars>>

ProcessUrlsReturn ==
    /\ pc = "processUrls"
    /\ idx > Len(urls)
    /\ Transfer(AfterUrls(inputs), ObjectAssign(checksums, result))
    /\ UNCHANGED <<inputs, pending, host, log, resolved, tapVars>>

ProcessUrlMapStep ==
    /\ pc = "processUrlMap"
    /\ idx <= Len(urlMap)
    /\ ProcessUrlItem("urlMap", urlMap[idx].v, urlMap[idx].k)
    /\ UNCHANGED <<inputs, pending, host, outputs, checksums, tapVars>>

ProcessUrlMapReturn ==
    /\ pc = "processUrlMap"
    /\ idx > Len(urlMap)
    /\ Transfer(AfterUrlMap(inputs), ObjectAssign(checksums, result))
    /\ UNCHANGED <<inputs, pending, host, log, resolved, tapVars>>

\* run(), from the end of writing checksums.json: the write may fail.
WriteChecksumsFile ==
    /\ pc = "writeFile"
    /\ \E written \in BOOLEAN :
         IF written
         THEN /\ outputs' =
                   setOutput(setOutput(outputs, "checksums-file", SumsLit.checksums_json),
                             "checksums-list", checksums)
              /\ log' = log \cup {LogEntry("info", "Computed checksums", <<>>)}
              /\ pc' = "done"
              /\ UNCHANGED failed
         ELSE /\ setFailed("EACCES: permission denied")
              /\ UNCHANGED <<outputs, log>>
    /\ UNCHANGED <<inputs, pending, host, idx, net, checksums, result, resolved, tapVars>>

NextSums ==
    \/ SumsStart
    \/ ProcessFilesStep
    \/ ProcessFilesReturn
    \/ ProcessUrlsStep
    \/ ProcessUrlsReturn
    \/ ProcessUrlMapStep
    \/ ProcessUrlMapReturn
    \/ WriteChecksumsFile

SpecSums == InitSums /\ [][NextSums]_vars

\* Either action, one run.
Init == InitTap \/ InitSums
Next == NextTap \/ NextSums
Spec == Init /\ [][Next]_vars

(***************************************************************************)
(* Claims about update-homebrew-tap (checked under SpecTap)                *)
(***************************************************************************)
HasRawAssets == inputs.assets.json = "object"
\* The raw entries the loop of processAssets has been through.
Processed == IF HasRawAssets THEN 1..(idx - 1) ELSE {}
\* The key each raw entry is stored under.
CanonicalKeyOf == [k \in RawKeys |-> ToPropertyKey(normalizePlatform(k))]
CanonicalKeys == [i \in 1..Len(rawAssets) |-> CanonicalKeyOf[rawAssets[i].k]]
CanonicalKey(i) == CanonicalKeys[i]
LastIn(ck, i) == \A j \in Processed : j > i => ck[j] # ck[i]
LastFor(i) == LastIn(CanonicalKeys, i)
NeedsFetch(i) == ~Truthy(rawAssets[i].v.sha256) /\ rawAssets[i].v.url # <<>>
ProcessAssetsReturned == HasRawAssets /\ pc # "run" /\ idx > Len(rawAssets)
OutputSet(name) == name \in DOMAIN outputs

\* C1: when raw keys collide on one canonical platform, the mapping holds
\* exactly one entry for the canonical key, and it is built from the raw
\* entry that came last in iteration order (its url and filename, and its
\* sha256 when it supplied one).
C1_LastWriteWins ==
    Processed # {} =>
    LET ck == CanonicalKeys
    IN  \A i \in Processed :
            LastIn(ck, i) =>
                LET out == ObjectGet(assets, ck[i])
                IN  /\ Cardinality({n \in 1..Len(assets) : assets[n].k = ck[i]}) = 1
                    /\ out.url = rawAssets[i].v.url
                    /\ out.filename = rawAssets[i].v.filename
                    /\ (Truthy(rawAssets[i].v.sha256)
                          => out.sha256 = rawAssets[i].v.sha256)

\* processAssets has returned a mapping in which darwin-x64 was written by two
\* raw entries with different urls, and holds the later one's url.
C1_Witness ==
    /\ ProcessAssetsReturned
    /\ \E i, j \in Processed :
         /\ i < j
         /\ rawAssets[i].k # rawAssets[j].k
         /\ CanonicalKey(i) = Lit.darwin_x64
         /\ CanonicalKey(j) = Lit.darwin_x64
         /\ rawAssets[i].v.url # <<>>
         /\ rawAssets[j].v.url # <<>>
         /\ rawAssets[i].v.url # rawAssets[j].v.url
         /\ ObjectGet(assets, Lit.darwin_x64).url = rawAssets[j].v.url

\* C2: after every iteration of processAssets, every key of the output
\* mapping is lower-case and alias-normalized, and no two keys are spellings
\* of the same canonical platform.
C2_KeysCanonical ==
    \A n \in 1..Len(assets) :
        /\ IsLowerCase(assets[n].k)
        /\ normalizePlatform(assets[n].k) = Str(assets[n].k)
        /\ \A m \in 1..Len(assets) :
             m # n => normalizePlatform(assets[m].k) # normalizePlatform(assets[n].k)

\* The failure messages that come from after processAssets: the template
\* file and the hosting API.
LaterFailures ==
    {"ENOENT: no such file or directory", "getContent failed",
     "createOrUpdateFileContents failed"}

\* C4: an asset whose checksum could not be obtained is warned about and stays
\* in the mapping with its url and no sha256; every asset gone through is in
\* the mapping; once processAssets is entered the run fails only on the
\* template file or the hosting API, and a run that ends without failure has
\* rendered the formula and, unless dry, committed it.
C4_ChecksumFailureIsolated ==
    /\ Processed # {} =>
        LET ck == CanonicalKeys
        IN  \A i \in Processed :
              LET out == ObjectGet(assets, ck[i])
              IN  /\ ObjectHas(assets, ck[i])
                  /\ (LastIn(ck, i) /\ NeedsFetch(i) /\ ~Truthy(out.sha256))
                     => /\ LogEntry("warning", "Could not fetch SHA256 for", ck[i])
                             \in log
                        /\ out.sha256 = Undefined
                        /\ out.url = rawAssets[i].v.url
    /\ (pc = "processAssets" => failed = <<>>)
    /\ (idx >= 1 => \A n \in 1..Len(failed) : failed[n] \in LaterFailures)
    /\ (HasRawAssets /\ pc = "done" /\ failed = <<>>
          => /\ OutputSet("formula-content")
             /\ (inputs.dryRun # "true" => OutputSet("commit-sha")))

\* A run that committed although the checksum of its first asset could not be
\* obtained, while that of a later asset was fetched.
C4_Witness ==
    /\ pc = "done"
    /\ failed = <<>>
    /\ OutputSet("commit-sha")
    /\ \E i, j \in Processed :
         /\ i < j
         /\ CanonicalKey(i) # CanonicalKey(j)
         /\ NeedsFetch(i)
         /\ NeedsFetch(j)
         /\ ObjectGet(assets, CanonicalKey(i)).sha256 = Undefined
         /\ Truthy(ObjectGet(assets, CanonicalKey(j)).sha256)

\* The fatal inputs of C8: a required input is missing, the first two
\* "/"-separated parts of tap-repo are not both non-empty, or assets is not
\* valid JSON.
C8_FatalInput ==
    \/ inputs.tapRepo = <<>>
    \/ inputs.formulaName = <<>>
    \/ inputs.version = <<>>
    \/ inputs.githubToken = ""
    \/ inputs.assets.json \in {"missing", "invalid"}
    \/ ~\E n, m \in 1..Len(inputs.tapRepo) :
          /\ n > 1
          /\ inputs.tapRepo[n] = "/"
          /\ \A j \in 1..(n - 1) : inputs.tapRepo[j] # "/"
          /\ m > n
          /\ \A j \in (n + 1)..m : inputs.tapRepo[j] # "/"

\* C8: with a fatal input the run fails with a single message before any
\* per-item processing: no sidecar fetch, no asset processed, no output set,
\* no call to the hosting API.
C8_FatalInputAbortsEarly ==
    C8_FatalInput =>
        /\ pc \in {"run", "done"}
        /\ (pc = "done" => Len(failed) = 1)
        /\ (pc = "run" => failed = <<>>)
        /\ net = {}
        /\ assets = <<>>
        /\ idx = 0
        /\ DOMAIN outputs = {}
        /\ api = <<>>

\* A run that failed on a tap-repo without a repository part, although its
\* assets input held an asset whose checksum would have been fetched.
C8_Witness ==
    /\ pc = "done"
    /\ Len(failed) = 1
    /\ inputs.tapRepo = Lit.owner_slash
    /\ HasRawAssets
    /\ \E i \in 1..Len(rawAssets) : NeedsFetch(i)

\* C9: a lookup answered 404 is followed by a write that carries no prior
\* revision; a lookup answered with any other error is the last call to the
\* host: the run has failed, and commit-sha and commit-url are not set.
C9_LookupErrors ==
    \A n \in 1..Len(api) :
        (api[n].op = "getContent" /\ api[n].answer.kind = "error")
        => IF api[n].answer.status = 404
           THEN /\ existingSha = Undefined
                /\ (n = Len(api) => pc = "createOrUpdate" /\ failed = <<>>)
                /\ (n < Len(api)
                      => /\ api[n + 1].op = "createOrUpdateFileContents"
                         /\ api[n + 1].sha = Undefined)
           ELSE /\ n = Len(api)
                /\ pc = "done"
                /\ Len(failed) = 1
                /\ ~OutputSet("commit-sha")
                /\ ~OutputSet("commit-url")

\* Both cases have happened: a file created after a 404, and (in another run)
\* a run failed by a 403.
C9_Witness404 ==
    /\ Len(api) = 2
    /\ api[1].answer.kind = "error"
    /\ api[1].answer.status = 404
    /\ api[2].answer.kind = "ok"
    /\ OutputSet("commit-sha")
C9_Witness ==
    /\ Len(api) = 1
    /\ api[1].answer.kind = "error"
    /\ api[1].answer.status = 403
    /\ pc = "done"

\* C10: a dry run makes no call to the hosting API and never sets commit-sha
\* or commit-url, and when it ends without failure formula-content and
\* formula-path are set.
C10_DryRun ==
    inputs.dryRun = "true" =>
        /\ api = <<>>
        /\ ~OutputSet("commit-sha")
        /\ ~OutputSet("commit-url")
        /\ pc \notin {"updateTapRepo", "createOrUpdate"}
        /\ (pc = "done" /\ failed = <<>>
              => OutputSet("formula-content") /\ OutputSet("formula-path"))

\* A dry run that rendered a formula for at least one asset and ended.
C10_Witness ==
    /\ inputs.dryRun = "true"
    /\ pc = "done"
    /\ failed = <<>>
    /\ OutputSet("formula-content")
    /\ assets # <<>>

(***************************************************************************)
(* Claims about compute-checksums (checked under SpecSums)                 *)
(***************************************************************************)
\* The content of the item gone through last was asked for and could not be
\* had: the stream failed, the download threw or was answered non-2xx.
ContentFailed ==
    \/ resolved.content.kind \in {"error", "throw"}
    \/ resolved.content.kind = "response" /\ ~resolved.content.ok
ContentBytes == resolved.content.bytes
ContentReached ==
    \/ resolved.content.kind = "bytes"
    \/ resolved.content.kind = "response" /\ resolved.content.ok
\* The loop of the item gone through last is still running.
InLoopOfResolved ==
    \/ resolved.source = "files" /\ pc = "processFiles"
    \/ resolved.source = "urls" /\ pc = "processUrls"
    \/ resolved.source = "urlMap" /\ pc = "processUrlMap"

SidecarHasBody ==
    \/ resolved.sidecar.kind = "file"
    \/ resolved.sidecar.kind = "response" /\ resolved.sidecar.ok
SidecarValid ==
    /\ SidecarHasBody
    /\ LET body == resolved.sidecar.body
       IN  /\ Len(body) >= HashHexLen
           /\ \A i \in 1..HashHexLen : body[i] \in HexChars
           /\ (Len(body) > HashHexLen => body[HashHexLen + 1] \in Whitespace)
SidecarHash == SubSeq(resolved.sidecar.body, 1, HashHexLen)

\* C5 as stated: with a valid sidecar the item's result is the sidecar's
\* 64-character hash unchanged, and the item's content is not read.
C5_SidecarVerbatim ==
    SidecarValid =>
        /\ resolved.value = Str(SidecarHash)
        /\ resolved.content = Unread

\* C5 as amended: the item's result is the sidecar's 64-character hash in
\* lower case, and the item's content is not read.
C5_SidecarLowerCased ==
    SidecarValid =>
        /\ resolved.outcome = "sidecar"
        /\ resolved.value = Str(ToLowerCase(SidecarHash))
        /\ resolved.content = Unread
        /\ (InLoopOfResolved => ObjectGet(result, resolved.key) = resolved.value)

\* A url whose sidecar holds an upper-case hash was resolved from it.
C5_Witness ==
    /\ resolved.source = "urls"
    /\ resolved.sidecar.kind = "response"
    /\ resolved.sidecar.ok
    /\ resolved.sidecar.body = HexUpper
    /\ resolved.value = Str(HexLower)

\* The item gone through last has no sidecar: the sidecar file is missing,
\* or the sidecar fetch was answered non-2xx.
SidecarAbsent ==
    \/ resolved.sidecar.kind = "missing"
    \/ resolved.sidecar.kind = "response" /\ ~resolved.sidecar.ok

\* C6: an item without sidecar has its content read, and when the content is
\* reachable its result is the digest of the full bytes under the selected
\* algorithm.
C6_DigestOfFullBytes ==
    SidecarAbsent =>
        /\ resolved.content # Unread
        /\ ContentReached =>
             /\ resolved.outcome = "computed"
             /\ resolved.value = CryptoDigest(inputs.algorithm, ContentBytes)
             /\ (InLoopOfResolved => ObjectGet(result, resolved.key) = resolved.value)

\* A local file of several chunks without sidecar was hashed with md5.
C6_Witness ==
    /\ resolved.source = "files"
    /\ resolved.sidecar.kind = "missing"
    /\ resolved.content.kind = "bytes"
    /\ Len(ReadChunks(ContentBytes)) > 1
    /\ inputs.algorithm = "md5"
    /\ resolved.outcome = "computed"

(***************************************************************************)
(* Claims about both actions (checked under Spec)                          *)
(***************************************************************************)
\* C7: a sidecar whose content does not match the hex pattern is logged and
\* resolution falls through to recomputing the digest from the item's
\* content, in compute-checksums and in update-homebrew-tap alike.
C7_MalformedFallsThrough ==
    /\ inputs.action = "compute-checksums" =>
         ((SidecarHasBody /\ MatchSha256(Trim(resolved.sidecar.body)) = Null)
            => /\ \E e \in log : e.level = "warning"
               /\ resolved.content # Unread)
    /\ inputs.action = "update-homebrew-tap" =>
         \A i \in Processed :
            LogEntry("warning", "Invalid SHA256 format",
                     rawAssets[i].v.url \o Lit.dot_sha256) \in log
            => IO("fetch", rawAssets[i].v.url) \in net

(***************************************************************************)
(* Platform Normalizer on its own: normalizePlatform applied to a raw      *)
(* platform string, then applied again to what it returned                 *)
(***************************************************************************)

UpperOf ==
    [c \in {LowerChars[i] : i \in DOMAIN LowerChars} |->
        UpperChars[CHOOSE i \in DOMAIN LowerChars : LowerChars[i] = c]]
UpperChar(c) == IF c \in DOMAIN UpperOf THEN UpperOf[c] ELSE c
ToUpperCase(s) == [i \in 1..Len(s) |-> UpperChar(s[i])]
Capitalize(s) == [i \in 1..Len(s) |-> IF i = 1 THEN UpperChar(s[i]) ELSE s[i]]

\* Raw platform strings: every key and every target of the alias table, a
\* platform outside it, two names that Object.prototype defines, and each of
\* these in other letter cases.
RawPlatformsLower ==
    DOMAIN PLATFORM_ALIASES
    \cup {PLATFORM_ALIASES[k] : k \in DOMAIN PLATFORM_ALIASES}
    \cup {Lit.windows_x64, Lit.constructor, Lit.proto}
RawPlatforms ==
    RawPlatformsLower
    \cup {ToUpperCase(s) : s \in RawPlatformsLower}
    \cup {Capitalize(s) : s \in RawPlatformsLower}
NormInputs == [action : {"normalizePlatform"}, platform : RawPlatforms]

\* A call normalizePlatform(v) on any JavaScript value: v.toLowerCase is a
\* function only on a string, so any other argument throws a TypeError.
Return(value) == [t |-> "return", value |-> value]
ThrowTypeError == [t |-> "throw", error |-> "TypeError: platform.toLowerCase is not a function"]
normalizePlatformCall(v) ==
    IF v.t = "string" THEN Return(normalizePlatform(v.s)) ELSE ThrowTypeError

InitNorm ==
    /\ inputs \in NormInputs
    /\ pc = "normalize"
    /\ idx = 0
    /\ assets = <<>>
    /\ existingSha = Undefined
    /\ outputs = NoOutputs
    /\ failed = <<>>
    /\ log = {}
    /\ net = {}
    /\ api = <<>>
    /\ checksums = <<>>
    /\ result = Undefined
    /\ resolved = [source |-> "none"]
    /\ pending = {}
    /\ host = <<>>

\* result = normalizePlatform(platform)
NormalizeOnce ==
    /\ pc = "normalize"
    /\ result' = normalizePlatform(inputs.platform)
    /\ pc' = "normalize-again"
    /\ UNCHANGED <<inputs, pending, host, idx, outputs, failed, log, net, tapVars, checksums, resolved>>

\* resolved = the completion of normalizePlatform(result)
NormalizeAgain ==
    /\ pc = "normalize-again"
    /\ resolved' = normalizePlatformCall(result)
    /\ pc' = "done"
    /\ UNCHANGED <<inputs, pending, host, idx, outputs, failed, log, net, tapVars, checksums, result>>

NextNorm == NormalizeOnce \/ NormalizeAgain
SpecNorm == InitNorm /\ [][NextNorm]_vars

(***************************************************************************)
(* Claims about the Platform Normalizer (checked under SpecNorm)           *)
(***************************************************************************)
\* C11: normalizePlatform is idempotent: applying it to its own result
\* returns that same result, for every raw platform string.
C11_Idempotent ==
    pc = "done" => resolved = Return(result)

\* Idempotence restricted to the raw strings whose first result is a string.
C11_IdempotentOnStrings ==
    (pc = "done" /\ result.t = "string") => resolved = Return(result)

\* The alias-table entry for the lower-cased input when the lower-cased input
\* is a key of the table, and otherwise the lower-cased input itself.
TableResult(s) ==
    LET lower == ToLowerCase(s)
    IN  IF lower \in DOMAIN PLATFORM_ALIASES
        THEN Str(PLATFORM_ALIASES[lower])
        ELSE Str(lower)

\* C12: for every input string normalizePlatform returns a string: the table
\* entry of the lower-cased input if it is a key of the alias table, else the
\* lower-cased input; so inputs differing only in letter case agree.
C12_TotalCaseInsensitive ==
    pc # "normalize" =>
        /\ result.t = "string"
        /\ result = TableResult(inputs.platform)
        /\ \A s \in RawPlatforms :
             ToLowerCase(s) = ToLowerCase(inputs.platform)
                 => normalizePlatform(s) = result

(***************************************************************************)
(* Further claims about update-homebrew-tap (checked under SpecTap)        *)
(***************************************************************************)
\* The context buildContext returned, once run() has rendered the formula.
FormulaContext == outputs["formula-content"].context

\* C17: in the context buildContext returns, darwinAmd64 equals darwinX64
\* and linuxAmd64 equals linuxX64: each pair is the entry the assets mapping
\* holds under the x64 key, or both are absent.
C17_Amd64MirrorsX64 ==
    OutputSet("formula-content") =>
        /\ FormulaContext.darwinAmd64 = FormulaContext.darwinX64
        /\ FormulaContext.darwinX64 = ObjectGet(FormulaContext.assets, Lit.darwin_x64)
        /\ FormulaContext.linuxAmd64 = FormulaContext.linuxX64
        /\ FormulaContext.linuxX64 = ObjectGet(FormulaContext.assets, Lit.linux_x64)
        /\ FormulaContext.assets = assets

\* A context built from a mapping that holds both a darwin-x64 and a
\* linux-x64 entry, so that both pairs of fields are present.
C17_Witness ==
    /\ OutputSet("formula-content")
    /\ ObjectHas(assets, Lit.darwin_x64)
    /\ ObjectHas(assets, Lit.linux_x64)
    /\ FormulaContext.darwinAmd64 = ObjectGet(assets, Lit.darwin_x64)
    /\ FormulaContext.linuxAmd64 = ObjectGet(assets, Lit.linux_x64)
    /\ FormulaContext.darwinAmd64 # FormulaContext.linuxAmd64

\* C19: an iteration of processAssets issues a sidecar fetch if and only if
\* the asset's sha256 is omitted or empty and its url is non-empty, and the
\* fetch goes to <url>.sha256; an asset whose sha256 is supplied is stored
\* with exactly that sha256, its url and its filename, and no fetch is made.
C19_FetchOnlyWhenNeeded ==
    [][ (HasRawAssets /\ pc = "processAssets" /\ idx \in 1..Len(rawAssets)
            /\ idx' = idx + 1)
        => LET info == rawAssets[idx].v
               key == ToPropertyKey(normalizePlatform(rawAssets[idx].k))
               stored == ObjectGet(assets', key)
           IN  /\ (net' # net) <=> NeedsFetch(idx)
               /\ NeedsFetch(idx)
                    => net' = net \cup {IO("fetch", info.url \o Lit.dot_sha256)}
               /\ stored.url = info.url
               /\ stored.filename = info.filename
               /\ Truthy(info.sha256) =>
                    /\ stored = info
                    /\ net' = net
                    /\ log' = log ]_vars

\* processAssets has gone through an asset whose sha256 was supplied, which is
\* stored as given with nothing fetched for it, and through an asset without
\* sha256, for which the sidecar was fetched.
C19_Witness ==
    /\ ProcessAssetsReturned
    /\ \E i, j \in Processed :
         /\ Truthy(rawAssets[i].v.sha256)
         /\ CanonicalKey(i) # CanonicalKey(j)
         /\ ObjectGet(assets, CanonicalKey(i)) = rawAssets[i].v
         /\ IO("fetch", AssetUrl(i) \o Lit.dot_sha256) \notin net
         /\ NeedsFetch(j)
         /\ IO("fetch", AssetUrl(j) \o Lit.dot_sha256) \in net

(***************************************************************************)
(* release-notes: platform tables and the Asset Classifier                 *)
(***************************************************************************)
\* The string literals of release-notes and the file names of its examples.
NotesLit ==
    [ linux_amd64_musl |-> <<"l","i","n","u","x","-","a","m","d","6","4","-","m","u","s","l">>,
      linux_amd64 |-> <<"l","i","n","u","x","-","a","m","d","6","4">>,
      linux_aarch64 |-> <<"l","i","n","u","x","-","a","a","r","c","h","6","4">>,
      linux_arm64 |-> <<"l","i","n","u","x","-","a","r","m","6","4">>,
      darwin_arm64 |-> <<"d","a","r","w","i","n","-","a","r","m","6","4">>,
      darwin_amd64 |-> <<"d","a","r","w","i","n","-","a","m","d","6","4">>,
      windows_amd64 |-> <<"w","i","n","d","o","w","s","-","a","m","d","6","4">>,
      windows_aarch64 |-> <<"w","i","n","d","o","w","s","-","a","a","r","c","h","6","4">>,
      amd64 |-> <<"a","m","d","6","4">>,
      arm64 |-> <<"a","r","m","6","4">>,
      x86_64 |-> <<"x","8","6","_","6","4">>,
      aarch64 |-> <<"a","a","r","c","h","6","4">>,
      dot_deb |-> <<".","d","e","b">>,
      dot_rpm |-> <<".","r","p","m">>,
      dot_tar_gz |-> <<".","t","a","r",".","g","z">>,
      dot_tar_xz |-> <<".","t","a","r",".","x","z">>,
      tar_gz |-> <<"t","a","r",".","g","z">>,
      tar_xz |-> <<"t","a","r",".","x","z">>,
      musl |-> <<"m","u","s","l">>,
      nightly |-> <<"n","i","g","h","t","l","y">>,
      dist |-> <<"d","i","s","t">>,
      file_musl |-> <<"d","i","s","t","/","m","y","a","p","p","-","v","1",".","2",".","3","-","l","i","n","u","x","-","a","m","d","6","4","-","m","u","s","l",".","t","a","r",".","g","z">>,
      file_linux_amd64 |-> <<"d","i","s","t","/","m","y","a","p","p","-","l","i","n","u","x","-","a","m","d","6","4",".","t","a","r",".","g","z">>,
      file_two_ids |-> <<"d","i","s","t","/","m","y","a","p","p","-","w","i","n","d","o","w","s","-","a","m","d","6","4","-","d","a","r","w","i","n","-","a","m","d","6","4",".","z","i","p">>,
      file_linux_arm64 |-> <<"d","i","s","t","/","m","y","a","p","p","-","l","i","n","u","x","-","a","r","m","6","4",".","t","a","r",".","g","z">>,
      file_windows_aarch64 |-> <<"d","i","s","t","/","m","y","a","p","p","-","w","i","n","d","o","w","s","-","a","a","r","c","h","6","4",".","z","i","p">>,
      file_deb |-> <<"d","i","s","t","/","m","y","a","p","p","_","1",".","0",".","0","_","a","r","m","6","4",".","d","e","b">>,
      file_rpm |-> <<"d","i","s","t","/","m","y","a","p","p","-","1",".","0",".","0",".","x","8","6","_","6","4",".","r","p","m">>,
      file_plain |-> <<"d","i","s","t","/","m","y","a","p","p",".","z","i","p">>,
      file_deb_constructor |-> <<"d","i","s","t","/","m","y","a","p","p","_","1",".","0",".","0","_","c","o","n","s","t","r","u","c","t","o","r",".","d","e","b">>,
      release_notes_md |-> <<"r","e","l","e","a","s","e","-","n","o","t","e","s",".","m","d">> ]

Platform(id, os, arch, archFull, variant, displayName) ==
    [id |-> id, os |-> os, osIcon |-> "", arch |-> arch, archFull |-> archFull,
     variant |-> variant, displayName |-> displayName]

\* Object.entries(PLATFORM_PATTERNS): the entries in the order of the literal,
\* each with its key as id.
PLATFORM_PATTERNS ==
    << Platform(NotesLit.linux_amd64_musl, "Linux", "x86_64",
                "x86_64 (64-bit, static)", Str(NotesLit.musl), "Linux x86_64 (static)"),
       Platform(NotesLit.linux_amd64, "Linux", "x86_64",
                "x86_64 (64-bit)", Undefined, "Linux x86_64"),
       Platform(NotesLit.linux_aarch64, "Linux", "aarch64",
                "ARM64", Undefined, "Linux ARM64"),
       Platform(NotesLit.linux_arm64, "Linux", "arm64",
                "ARM64", Undefined, "Linux ARM64"),
       Platform(NotesLit.darwin_arm64, "macOS", "arm64",
                "Apple Silicon (M1/M2/M3/M4)", Undefined, "macOS Apple Silicon"),
       Platform(NotesLit.darwin_amd64, "macOS", "x86_64",
                "Intel (64-bit)", Undefined, "macOS Intel"),
       Platform(NotesLit.windows_amd64, "Windows", "x86_64",
                "x86_64 (64-bit)", Undefined, "Windows x86_64"),
       Platform(NotesLit.windows_aarch64, "Windows", "arm64",
                "ARM64", Undefined, "Windows ARM64") >>

DEB_ARCH_MAP_Arm64 ==
    (NotesLit.amd64 :> NotesLit.linux_amd64) @@
    (NotesLit.arm64 :> NotesLit.linux_arm64)
DEB_ARCH_MAP ==
    (NotesLit.amd64 :> NotesLit.linux_amd64) @@
    (NotesLit.arm64 :> NotesLit.linux_aarch64)
RPM_ARCH_MAP ==
    (NotesLit.x86_64 :> NotesLit.linux_amd64) @@
    (NotesLit.aarch64 :> NotesLit.linux_aarch64)

\* map[arch] on an object literal: an own property, else what Object.prototype
\* holds under that name, else undefined.
ArchLookup(map, arch) ==
    IF arch \in DOMAIN map THEN Str(map[arch])
    ELSE IF arch = Lit.constructor THEN ObjectConstructor
    ELSE IF arch = Lit.proto THEN ObjectPrototype
    ELSE Undefined

\* PLATFORM_PATTERNS[platformId]: the entry whose key is the string the value
\* converts to, else undefined (no value that reaches this lookup converts to
\* a name that Object.prototype defines).
PatternsGet(platformId) ==
    LET key == ToPropertyKey(platformId)
    IN  IF \E i \in DOMAIN PLATFORM_PATTERNS : PLATFORM_PATTERNS[i].id = key
        THEN PLATFORM_PATTERNS[CHOOSE i \in DOMAIN PLATFORM_PATTERNS :
                                   PLATFORM_PATTERNS[i].id = key]
        ELSE Undefined

\* basename.includes(id)
Includes(s, sub) ==
    \E i \in 0..(Len(s) - Len(sub)) : SubSeq(s, i + 1, i + Len(sub)) = sub

\* [a-z0-9] and [a-z0-9_]
DebArchChars ==
    {LowerChars[i] : i \in DOMAIN LowerChars}
    \cup {"0","1","2","3","4","5","6","7","8","9"}
RpmArchChars == DebArchChars \cup {"_"}

\* basename.match(/<lead>([<class>]+)<ext>$/) for a lead character outside the
\* class: group 1 is the longest run of class characters that ends where the
\* extension begins, provided the lead character stands before it; else null.
MatchArchSuffix(basename, lead, class, ext) ==
    LET m == Len(basename) - Len(ext)
        runs == {k \in 0..m : \A j \in (m - k + 1)..m : basename[j] \in class}
        k == CHOOSE x \in runs : \A y \in runs : y <= x
    IN  IF EndsWith(basename, ext) /\ k >= 1 /\ m - k >= 1 /\ basename[m - k] = lead
        THEN Str(SubSeq(basename, m - k + 1, m))
        ELSE Null

\* The for loop over Object.entries(PLATFORM_PATTERNS) returns at its first hit.
LastMatch(hits) == CHOOSE i \in hits : \A j \in hits : j <= i
FirstMatch(hits) == CHOOSE i \in hits : \A j \in hits : i <= j

\* The platform a package architecture maps to, through one arch table.
PackagePlatform(match, map) ==
    LET platformId == IF match # Null THEN ArchLookup(map, match.s) ELSE Undefined
    IN  IF Truthy(platformId) THEN PatternsGet(platformId) ELSE Undefined

detectPlatform(filename) ==
    LET basename == Basename(filename)
        hits == {i \in DOMAIN PLATFORM_PATTERNS :
                    Includes(basename, PLATFORM_PATTERNS[i].id)}
        debMatch == MatchArchSuffix(basename, "_", DebArchChars, NotesLit.dot_deb)
        rpmMatch == MatchArchSuffix(basename, ".", RpmArchChars, NotesLit.dot_rpm)
        debPlatform == PackagePlatform(debMatch, DEB_ARCH_MAP)
        rpmPlatform == PackagePlatform(rpmMatch, RPM_ARCH_MAP)
    IN  IF hits # {} THEN PLATFORM_PATTERNS[FirstMatch(hits)]
        ELSE IF debPlatform # Undefined THEN debPlatform
        ELSE IF rpmPlatform # Undefined THEN rpmPlatform
        ELSE Null

getAssetType(filename) ==
    IF EndsWith(filename, NotesLit.dot_deb) THEN "deb"
    ELSE IF EndsWith(filename, NotesLit.dot_rpm) THEN "rpm"
    ELSE "binary"

\* path.extname: from the last dot on, unless there is none or the only one
\* is the first character.
Extname(filename) ==
    LET dots == {i \in 1..Len(filename) : filename[i] = "."}
        last == CHOOSE i \in dots : \A j \in dots : j <= i
    IN  IF dots = {} \/ last = 1 THEN <<>>
        ELSE SubSeq(filename, last, Len(filename))
getExtension(filename) ==
    IF EndsWith(filename, NotesLit.dot_tar_gz) THEN NotesLit.tar_gz
    ELSE IF EndsWith(filename, NotesLit.dot_tar_xz) THEN NotesLit.tar_xz
    ELSE LET ext == Extname(filename)
         IN  IF StartsWith(ext, <<".">>) THEN Tail(ext) ELSE ext

\* readSha256(assetPath), given what <assetPath>.sha256 holds.
readSha256(side) ==
    IF side.kind = "missing" THEN Undefined
    ELSE LET match == MatchSha256(Trim(side.body))
         IN  IF match # Null THEN Str(ToLowerCase(match.s)) ELSE Undefined

\* getFileSize(filepath), given the answer of fs.promises.stat.
Number(n) == [t |-> "number", n |-> n]
getFileSize(stat) ==
    IF stat.kind = "error" THEN Undefined ELSE Number(stat.size)

\* The comparator of assets.sort and the sort itself, which is stable: an
\* element goes after every element that does not compare greater than it.
platformOrder ==
    << NotesLit.linux_amd64, NotesLit.linux_amd64_musl, NotesLit.linux_aarch64,
       NotesLit.darwin_arm64, NotesLit.darwin_amd64, NotesLit.windows_amd64 >>
IndexOf(seq, x) ==
    IF \E i \in DOMAIN seq : seq[i] = x
    THEN (CHOOSE i \in DOMAIN seq : seq[i] = x /\ \A j \in 1..(i - 1) : seq[j] # x) - 1
    ELSE -1
OrderIndexRaw(index) == index
OrderIndex(index) == IF index = -1 THEN 999 ELSE index
CompareAssets(a, b) ==
    OrderIndex(IndexOf(platformOrder, a.platform.id))
        - OrderIndex(IndexOf(platformOrder, b.platform.id))
InsertSorted(sorted, x) ==
    LET greater == {i \in DOMAIN sorted : CompareAssets(sorted[i], x) > 0}
        p == IF greater = {} THEN Len(sorted) + 1
             ELSE CHOOSE i \in greater : \A j \in greater : i <= j
    IN  SubSeq(sorted, 1, p - 1) \o <<x>> \o SubSeq(sorted, p, Len(sorted))
RECURSIVE ArraySort(_)
ArraySort(seq) ==
    IF seq = <<>> THEN <<>>
    ELSE InsertSorted(ArraySort(SubSeq(seq, 1, Len(seq) - 1)), seq[Len(seq)])
(***************************************************************************)
(* release-notes: inputs and environment                                   *)
(***************************************************************************)
MaxFiles == 3

\* What the glob of discoverAssets can return: paths ending in .tar.gz, .zip,
\* .deb or .rpm, in any order, each once.
NotesFiles ==
    { NotesLit.file_musl, NotesLit.file_linux_amd64, NotesLit.file_two_ids,
      NotesLit.file_linux_arm64, NotesLit.file_windows_aarch64,
      NotesLit.file_deb, NotesLit.file_rpm, NotesLit.file_plain,
      NotesLit.file_deb_constructor }
GlobResults == {f \in SeqsUpTo(NotesFiles, MaxFiles) : Distinct(f)}

ValidNotesScalars ==
    [version |-> Lit.v1_2_3, assetsDir |-> NotesLit.dist, projectName |-> Lit.myapp]
NotesScalars ==
    { ValidNotesScalars,
      [ValidNotesScalars EXCEPT !.version = Lit.plain_1_2_3],
      [ValidNotesScalars EXCEPT !.version = <<>>],
      [ValidNotesScalars EXCEPT !.assetsDir = <<>>],
      [ValidNotesScalars EXCEPT !.projectName = <<>>] }
NotesInputs ==
    { [action |-> "release-notes", version |-> s.version, assetsDir |-> s.assetsDir,
       projectName |-> s.projectName, files |-> f] :
        s \in NotesScalars, f \in GlobResults }

\* What the file system answers about one discovered file: its size and its
\* sidecar, or neither.
FileStats ==
    { [stat |-> [kind |-> "stats", size |-> 2048],
       side |-> [kind |-> "file", body |-> HexUpper]],
      [stat |-> [kind |-> "error"], side |-> [kind |-> "missing"]] }

\* Which template run() loads: the default, or the file named by the template
\* input, which may be unreadable or may not compile.
NotesTemplateSources == {"default", "file", "file-unreadable", "file-malformed"}

InitNotes ==
    /\ inputs \in NotesInputs
    /\ pc = "run"
    /\ idx = 0
    /\ assets = <<>>
    /\ existingSha = Undefined
    /\ outputs = NoOutputs
    /\ failed = <<>>
    /\ log = {}
    /\ net = {}
    /\ api = <<>>
    /\ checksums = <<>>
    /\ result = Undefined
    /\ resolved = [source |-> "none"]
    /\ pending = {}
    /\ host = <<>>

(***************************************************************************)
(* release-notes: run(), discoverAssets, buildContext                      *)
(***************************************************************************)
\* The first required input of run() that is missing, or "" when none is.
NotesInputError(in) ==
    IF in.version = <<>> THEN "Input required and not supplied: version"
    ELSE IF in.assetsDir = <<>> THEN "Input required and not supplied: assets-dir"
    ELSE IF in.projectName = <<>>
    THEN "Input required and not supplied: project-name"
    ELSE ""

\* run(), from its start into discoverAssets.
NotesStart ==
    /\ inputs.action = "release-notes"
    /\ pc = "run"
    /\ IF NotesInputError(inputs) # ""
       THEN /\ setFailed(NotesInputError(inputs))
            /\ UNCHANGED <<idx, log>>
       ELSE /\ pc' = "discoverAssets"
            /\ idx' = 1
            /\ log' = log \cup {LogEntry("info", "Generating release notes for", inputs.version)}
            /\ UNCHANGED failed
    /\ UNCHANGED <<inputs, pending, host, outputs, net, tapVars, sumsVars>>

\* if (!platform)
UndetectedNever(platform) == FALSE
Undetected(platform) == platform = Null

Asset(filename, platform, type, extension, size, sha256) ==
    [filename |-> filename, platform |-> platform, type |-> type,
     extension |-> extension, size |-> size, sha256 |-> sha256]
Detection(filepath, platform, type) ==
    [source |-> "discoverAssets", ref |-> filepath, platform |-> platform, type |-> type]

\* One iteration of the loop of discoverAssets.
DiscoverStep ==
    /\ pc = "discoverAssets"
    /\ idx <= Len(inputs.files)
    /\ LET filepath == inputs.files[idx]
           filename == Basename(filepath)
           platform == detectPlatform(filename)
       IN  IF EndsWith(filepath, Lit.dot_sha256)
           THEN UNCHANGED <<assets, log, net, resolved>>
           ELSE IF Undetected(platform)
           THEN /\ log' = log \cup {LogEntry("warning", "Could not detect platform for", filename)}
                /\ resolved' = Detection(filepath, platform, "none")
                /\ UNCHANGED <<assets, net>>
           ELSE \E fs \in FileStats :
                  /\ assets' = Append(assets,
                                  Asset(filename, platform, getAssetType(filename),
                                        getExtension(filename), getFileSize(fs.stat),
                                        readSha256(fs.side)))
                  /\ net' = net \cup {IO("stat", filepath),
                                      IO("readFile", filepath \o Lit.dot_sha256)}
                  /\ resolved' = Detection(filepath, platform, getAssetType(filename))
                  /\ UNCHANGED log
    /\ idx' = idx + 1
    /\ UNCHANGED <<inputs, pending, host, pc, existingSha, outputs, failed, api, checksums, result>>

\* release-notes buildContext, given what discoverAssets returned.
buildReleaseContext(version, projectName, as) ==
    [version |-> version,
     versionClean |-> StripV(version),
     projectName |-> projectName,
     isNightly |-> (version = NotesLit.nightly \/ Includes(version, NotesLit.nightly)),
     binaries |-> SelectSeq(as, LAMBDA a : a.type = "binary"),
     debPackages |-> SelectSeq(as, LAMBDA a : a.type = "deb"),
     rpmPackages |-> SelectSeq(as, LAMBDA a : a.type = "rpm"),
     linuxAssets |-> SelectSeq(as, LAMBDA a : a.platform.os = "Linux"),
     macosAssets |-> SelectSeq(as, LAMBDA a : a.platform.os = "macOS"),
     windowsAssets |-> SelectSeq(as, LAMBDA a : a.platform.os = "Windows")]

\* The end of discoverAssets, which sorts what it returns, and buildContext.
DiscoverReturn ==
    /\ pc = "discoverAssets"
    /\ idx > Len(inputs.files)
    /\ assets' = ArraySort(assets)
    /\ result' = buildReleaseContext(inputs.version, inputs.projectName, assets')
    /\ log' = log \cup {LogEntry("info", "Found binaries, DEBs, RPMs", <<>>)}
    /\ pc' = "render"
    /\ UNCHANGED <<inputs, pending, host, idx, existingSha, outputs, failed, net, api, checksums, resolved>>

\* run(), from the template load to its end.
NotesRender ==
    /\ pc = "render"
    /\ \E tpl \in NotesTemplateSources, written \in BOOLEAN :
         LET warned == IF tpl = "file-unreadable"
                       THEN {LogEntry("warning", "Failed to load custom template, using default", <<>>)}
                       ELSE {}
             used == IF tpl = "file-unreadable" THEN "default" ELSE tpl
         IN  IF tpl = "file-malformed"
             THEN /\ setFailed("Parse error")
                  /\ log' = log
                  /\ UNCHANGED <<outputs, net>>
             ELSE IF ~written
             THEN /\ setFailed("EACCES: permission denied")
                  /\ log' = log \cup warned
                  /\ net' = net \cup {IO("writeFile", NotesLit.release_notes_md)}
                  /\ UNCHANGED outputs
             ELSE /\ outputs' =
                       setOutput(
                         setOutput(outputs, "release-notes",
                                   [template |-> used, context |-> result]),
                         "release-notes-file", NotesLit.release_notes_md)
                  /\ log' = log \cup warned
                       \cup {LogEntry("info", "Release notes generated successfully", <<>>)}
                  /\ net' = net \cup {IO("writeFile", NotesLit.release_notes_md)}
                  /\ pc' = "done"
                  /\ UNCHANGED failed
    /\ UNCHANGED <<inputs, pending, host, idx, tapVars, sumsVars>>

NextNotes == NotesStart \/ DiscoverStep \/ DiscoverReturn \/ NotesRender
SpecNotes == InitNotes /\ [][NextNotes]_vars

\* Either Context Builder at work: one run of update-homebrew-tap or of
\* release-notes.
InitContexts == InitTap \/ InitNotes
NextContexts == NextTap \/ NextNotes
SpecContexts == InitContexts /\ [][NextContexts]_vars

(***************************************************************************)
(* Claims about release-notes (checked under SpecNotes)                    *)
(***************************************************************************)
\* The file discoverAssets went through last, and the table entries whose id
\* its basename contains.
Detected == resolved.source = "discoverAssets"
DetectedBasename == Basename(resolved.ref)
ContainedIdsOf ==
    [f \in NotesFiles |->
        {i \in DOMAIN PLATFORM_PATTERNS :
            Includes(Basename(f), PLATFORM_PATTERNS[i].id)}]
ContainedIds == ContainedIdsOf[resolved.ref]
\* What detectPlatform returns for each file name of the examples.
DetectedAs == [f \in NotesFiles |-> detectPlatform(Basename(f))]
AssetNamed(filepath) ==
    CHOOSE a \in {assets[i] : i \in DOMAIN assets} : a.filename = Basename(filepath)
HasAssetNamed(filepath) ==
    \E i \in DOMAIN assets : assets[i].filename = Basename(filepath)

\* C13: when the basename of a file contains a known platform id, the file is
\* classified as the first such id in table order, whatever text surrounds
\* it; a basename containing linux-amd64-musl is classified as
\* linux-amd64-musl, never as linux-amd64.
C13_FirstIdInTableOrder ==
    (Detected /\ ContainedIds # {}) =>
        /\ resolved.platform # Null
        /\ \E i \in ContainedIds :
             /\ resolved.platform = PLATFORM_PATTERNS[i]
             /\ \A j \in ContainedIds : i <= j
        /\ Includes(DetectedBasename, NotesLit.linux_amd64_musl)
             => /\ resolved.platform.id = NotesLit.linux_amd64_musl
                /\ resolved.platform.id # NotesLit.linux_amd64

\* The file last classified is myapp-v1.2.3-linux-amd64-musl.tar.gz, as
\* linux-amd64-musl, after a file naming windows-amd64 before darwin-amd64
\* was classified as darwin-amd64, the earlier of the two in the table.
C13_Witness ==
    /\ Detected
    /\ resolved.ref = NotesLit.file_musl
    /\ resolved.platform.id = NotesLit.linux_amd64_musl
    /\ HasAssetNamed(NotesLit.file_two_ids)
    /\ AssetNamed(NotesLit.file_two_ids).platform.id = NotesLit.darwin_amd64

\* The arch tables as the claim states them.
DebArchTable ==
    (NotesLit.amd64 :> NotesLit.linux_amd64) @@ (NotesLit.arm64 :> NotesLit.linux_aarch64)
RpmArchTable ==
    (NotesLit.x86_64 :> NotesLit.linux_amd64) @@ (NotesLit.aarch64 :> NotesLit.linux_aarch64)

\* C14: when the basename contains no known platform id, a basename ending in
\* _<arch>.deb is classified through the Debian arch table (amd64 to
\* linux-amd64, arm64 to linux-aarch64) with type deb, and otherwise one
\* ending in .<arch>.rpm through the RPM arch table (x86_64 to linux-amd64,
\* aarch64 to linux-aarch64) with type rpm.
C14_PackageArchTables ==
    (Detected /\ ContainedIds = {}) =>
        /\ \A arch \in DOMAIN DebArchTable :
             EndsWith(DetectedBasename, <<"_">> \o arch \o NotesLit.dot_deb)
                => /\ resolved.platform # Null
                   /\ resolved.platform.id = DebArchTable[arch]
                   /\ resolved.type = "deb"
        /\ \A arch \in DOMAIN RpmArchTable :
             EndsWith(DetectedBasename, <<".">> \o arch \o NotesLit.dot_rpm)
                => /\ resolved.platform # Null
                   /\ resolved.platform.id = RpmArchTable[arch]
                   /\ resolved.type = "rpm"

\* The file last classified is myapp_1.0.0_arm64.deb, as linux-aarch64 with
\* type deb, after myapp-1.0.0.x86_64.rpm was classified as linux-amd64 with
\* type rpm.
C14_Witness ==
    /\ Detected
    /\ resolved.ref = NotesLit.file_deb
    /\ resolved.platform.id = NotesLit.linux_aarch64
    /\ resolved.type = "deb"
    /\ HasAssetNamed(NotesLit.file_rpm)
    /\ AssetNamed(NotesLit.file_rpm).platform.id = NotesLit.linux_amd64
    /\ AssetNamed(NotesLit.file_rpm).type = "rpm"

\* The files the loop of discoverAssets has been through.
Discovered ==
    IF inputs.action = "release-notes" /\ pc # "run" THEN 1..(idx - 1) ELSE {}
OmissionWarning(filepath) ==
    LogEntry("warning", "Could not detect platform for", Basename(filepath))

\* C15: every asset of discoverAssets carries exactly one platform, an entry
\* of the platform table; a file for which no platform is detected is left
\* out with a warning, and the run does not fail for it: it fails only where
\* the template or the written file fails.
C15_OnePlatformOrOmitted ==
    inputs.action = "release-notes" =>
        /\ \A n \in DOMAIN assets :
             Cardinality({i \in DOMAIN PLATFORM_PATTERNS :
                             assets[n].platform = PLATFORM_PATTERNS[i]}) = 1
        /\ \A i \in Discovered :
             IF DetectedAs[inputs.files[i]] = Null
             THEN /\ ~HasAssetNamed(inputs.files[i])
                  /\ OmissionWarning(inputs.files[i]) \in log
             ELSE /\ HasAssetNamed(inputs.files[i])
                  /\ OmissionWarning(inputs.files[i]) \notin log
        /\ Len(assets) <= Cardinality(Discovered)
        /\ pc = "discoverAssets" => failed = <<>>
        /\ (Discovered # {} /\ failed # <<>>)
             => failed \in {<<"Parse error">>, <<"EACCES: permission denied">>}

\* A run that went through myapp.zip, for which no platform is detected, and
\* through a file that is classified, and ended with its outputs set.
C15_Witness ==
    /\ pc = "done"
    /\ failed = <<>>
    /\ OutputSet("release-notes")
    /\ \E i \in Discovered : inputs.files[i] = NotesLit.file_plain
    /\ ~HasAssetNamed(NotesLit.file_plain)
    /\ OmissionWarning(NotesLit.file_plain) \in log
    /\ Len(assets) >= 1

\* The rank of a platform id in the display order.
Rank(id) ==
    CASE id = NotesLit.linux_amd64 -> 1
      [] id = NotesLit.linux_amd64_musl -> 2
      [] id = NotesLit.linux_aarch64 -> 3
      [] id = NotesLit.darwin_arm64 -> 4
      [] id = NotesLit.darwin_amd64 -> 5
      [] id = NotesLit.windows_amd64 -> 6
      [] OTHER -> 7
PositionIn(seq, x) == CHOOSE i \in DOMAIN seq : seq[i] = x
StablyRanked(discovered, returned) ==
    /\ Len(returned) = Len(discovered)
    /\ \A i \in DOMAIN discovered : \E j \in DOMAIN returned : returned[j] = discovered[i]
    /\ \A i, j \in DOMAIN returned :
         i < j =>
            /\ Rank(returned[i].platform.id) <= Rank(returned[j].platform.id)
            /\ Rank(returned[i].platform.id) = Rank(returned[j].platform.id)
                 => PositionIn(discovered, returned[i]) < PositionIn(discovered, returned[j])

\* C16: what discoverAssets returns is a permutation of the assets it
\* classified, in the order linux-amd64, linux-amd64-musl, linux-aarch64,
\* darwin-arm64, darwin-amd64, windows-amd64, then every other id; assets of
\* equal rank keep their discovery order.
C16_SortedStably ==
    [][ (pc = "discoverAssets" /\ pc' = "render") => StablyRanked(assets, assets') ]_vars

\* discoverAssets found windows-aarch64, linux-arm64 and linux-amd64-musl
\* files in this order and returned the musl asset first, then the two
\* others in their discovery order.
C16_Witness ==
    /\ pc = "render"
    /\ inputs.files = <<NotesLit.file_windows_aarch64, NotesLit.file_linux_arm64,
                        NotesLit.file_musl>>
    /\ Len(assets) = 3
    /\ assets[1].platform.id = NotesLit.linux_amd64_musl
    /\ assets[2].platform.id = NotesLit.windows_aarch64
    /\ assets[3].platform.id = NotesLit.linux_arm64

(***************************************************************************)
(* Claims about both Context Builders (checked under SpecContexts)         *)
(***************************************************************************)
ReleaseContext == outputs["release-notes"].context
\* clean is version without its leading v, if it has one.
CleanOf(version, clean) ==
    IF version # <<>> /\ version[1] = "v"
    THEN version = <<"v">> \o clean
    ELSE clean = version

\* C18: each Context Builder exposes the version as given in its version
\* field and the version without a leading v in its versionClean field.
C18_OriginalAndClean ==
    /\ OutputSet("formula-content") =>
         /\ FormulaContext.version = inputs.version
         /\ CleanOf(inputs.version, FormulaContext.versionClean)
    /\ OutputSet("release-notes") =>
         /\ ReleaseContext.version = inputs.version
         /\ CleanOf(inputs.version, ReleaseContext.versionClean)

\* C18, amended: release-notes buildContext exposes the version as given
\* (version) alongside the version without a leading v (versionClean);
\* update-homebrew-tap buildContext exposes the version without a leading v
\* under both names, and the version as given under none.
C18_CleanVersion ==
    /\ OutputSet("formula-content") =>
         /\ CleanOf(inputs.version, FormulaContext.versionClean)
         /\ FormulaContext.version = FormulaContext.versionClean
    /\ OutputSet("release-notes") =>
         /\ ReleaseContext.version = inputs.version
         /\ CleanOf(inputs.version, ReleaseContext.versionClean)

\* update-homebrew-tap built its context from version v1.2.3: both fields
\* hold 1.2.3.
C18_Witness ==
    /\ OutputSet("formula-content")
    /\ inputs.version = Lit.v1_2_3
    /\ FormulaContext.version = Lit.plain_1_2_3
    /\ FormulaContext.versionClean = Lit.plain_1_2_3

(***************************************************************************)
(* Further claims about compute-checksums (checked under SpecSums)         *)
(***************************************************************************)
NoSourceProvided ==
    ~inputs.files.given /\ inputs.urls.json = "missing" /\ inputs.urlMap.json = "missing"
NoSourceError == "At least one of 'files', 'urls', or 'url-map' must be provided"
NothingDone ==
    /\ resolved = NoResolution
    /\ net = {}
    /\ DOMAIN outputs = {}
    /\ checksums = <<>>
    /\ result = <<>>

\* C20: a finished run has failed exactly when none of files, urls and
\* url-map was provided; in that case no item was processed, no output is
\* set and checksums.json is not written.
C20_FailsOnlyWithoutSource ==
    pc = "done" =>
        /\ (failed # <<>>) <=> NoSourceProvided
        /\ NoSourceProvided => NothingDone

\* C20, amended: the run fails with the error "At least one of 'files',
\* 'urls', or 'url-map' must be provided" exactly when none of the three is
\* provided, and then no item is processed, no output is set and
\* checksums.json is not written; a run with a source can fail otherwise.
C20_NoSourceError ==
    pc # "run" =>
        /\ (\E i \in DOMAIN failed : failed[i] = NoSourceError) <=> NoSourceProvided
        /\ NoSourceProvided =>
             /\ pc = "done"
             /\ failed = <<NoSourceError>>
             /\ NothingDone

\* A run without files, urls and url-map has ended with that one failure.
C20_Witness ==
    /\ NoSourceProvided
    /\ pc = "done"
    /\ failed = <<NoSourceError>>
    /\ NothingDone

(***************************************************************************)
(* Claims about what a resolver does without a usable sidecar, and about   *)
(* the order in which compute-checksums reads its inputs                   *)
(***************************************************************************)

\* C21: in update-homebrew-tap an asset given with a url and without a sha256
\* always ends with a sha256 in the output mapping: the sidecar's hash, or,
\* when no sidecar hash exists, the SHA-256 digest of the content downloaded
\* from the asset's url.
C21_DigestComputedFromBinary ==
    Processed # {} =>
    \A i \in Processed :
        (LastFor(i) /\ NeedsFetch(i))
        => /\ Truthy(ObjectGet(assets, CanonicalKey(i)).sha256)
           /\ (LogEntry("warning", "Could not fetch SHA256 for", CanonicalKey(i)) \in log
                 => IO("fetch", rawAssets[i].v.url) \in net)

\* The run failed on malformed JSON in its urls or url-map input.
MalformedJsonFailure ==
    \E n \in 1..Len(failed) : failed[n] \in {"Invalid urls JSON", "Invalid url-map JSON"}

\* C22: in compute-checksums, when the run fails on malformed JSON in urls or
\* url-map, no item of any source has been gone through: no local file was
\* read, no sidecar was probed and no content was fetched.
C22_MalformedJsonAbortsFirst ==
    MalformedJsonFailure =>
        /\ net = {}
        /\ resolved = NoResolution
        /\ checksums = <<>>

\* The body of the sidecar of the item gone through last, as the resolvers
\* match it (trimmed), is 64 hex characters that end the body or are followed
\* by whitespace.
SidecarWellFormed ==
    LET body == Trim(resolved.sidecar.body)
    IN  /\ Len(body) >= HashHexLen
        /\ \A i \in 1..HashHexLen : body[i] \in HexChars
        /\ (Len(body) > HashHexLen => body[HashHexLen + 1] \in Whitespace)

\* C26: a sidecar's content yields a hash only when it is 64 hex characters,
\* optionally followed by whitespace and a filename; with any other content,
\* more than 64 consecutive hex characters included, the item is resolved as
\* if it had no sidecar.
C26_OnlyWellFormedAccepted ==
    SidecarHasBody =>
        (resolved.outcome = "sidecar" <=> SidecarWellFormed)

\* The three outputs of compute-checksums.
SumsOutputs == {"checksums", "checksums-file", "checksums-list"}
\* The items of the provided sources that the run has to go through.
ItemsToProcess ==
    Len(SelectSeq(files, LAMBDA f : ~EndsWith(f, Lit.dot_sha256)))
    + Len(urls) + Len(urlMap)

\* C28: a compute-checksums run sets its outputs only after it went through
\* every item of every provided source, and a run that failed has set none
\* of checksums, checksums-file and checksums-list.
C28_AllOrNothing ==
    inputs.action = "compute-checksums" =>
        /\ (DOMAIN outputs \cap SumsOutputs # {} => pc \in {"writeFile", "done"})
        /\ (failed # <<>> => DOMAIN outputs \cap SumsOutputs = {})
        /\ (pc = "done" /\ failed = <<>> => SumsOutputs \subseteq DOMAIN outputs)

WellKnownKeys == {Lit.darwin_arm64, Lit.darwin_x64, Lit.linux_arm64, Lit.linux_x64}
RenderedByDefault ==
    /\ OutputSet("formula-content")
    /\ outputs["formula-content"].template = "default"

\* C29: the formula rendered from the default template contains the url of
\* every asset the context holds under darwin-arm64, darwin-x64, linux-arm64
\* or linux-x64, whichever of these platforms are present.
C29_WellKnownUrlsRendered ==
    RenderedByDefault =>
        LET rendered == DEFAULT_TEMPLATE(FormulaContext)
        IN  \A key \in WellKnownKeys :
                (ObjectHas(FormulaContext.assets, key)
                   /\ ObjectGet(FormulaContext.assets, key).url # <<>>)
                => \E n \in 1..Len(rendered) :
                      rendered[n] = ObjectGet(FormulaContext.assets, key).url

(***************************************************************************)
(* Claim about the sidecar and the selected algorithm                      *)
(***************************************************************************)
\* The item gone through last was resolved (it is no sidecar file skipped by
\* processFiles) in a run with read-sha256-files enabled.
ResolvedWithSidecars ==
    /\ inputs.action = "compute-checksums"
    /\ inputs.readSha256Files
    /\ resolved.outcome \in {"sidecar", "computed", "threw"}
SidecarProbe ==
    IO(IF resolved.source = "files" THEN "readFile" ELSE "fetch",
       resolved.ref \o Lit.dot_sha256)

\* C27: with read-sha256-files enabled compute-checksums probes
\* <reference>.sha256 for every item whatever the selected algorithm; with a
\* valid sidecar the item's result is the sidecar's 64 hex characters (in
\* lower case), also under sha512 or md5, and no digest of the item's content
\* is computed under the selected algorithm.
C27_SidecarWhateverAlgorithm ==
    ResolvedWithSidecars =>
        /\ resolved.sidecar # Unread
        /\ SidecarProbe \in net
        /\ SidecarValid =>
             /\ resolved.outcome = "sidecar"
             /\ resolved.value = Str(ToLowerCase(SidecarHash))
             /\ Len(resolved.value.s) = HashHexLen
             /\ resolved.content = Unread

\* A local file was resolved from its valid sidecar in a run that selected
\* sha512, and a url in a run that selected md5.
C27_Witness ==
    /\ ResolvedWithSidecars
    /\ SidecarValid
    /\ resolved.value = Str(ToLowerCase(SidecarHash))
    /\ \/ inputs.algorithm = "sha512" /\ resolved.source = "files"
       \/ inputs.algorithm = "md5" /\ resolved.source = "urls"

(***************************************************************************)
(* The resolution loops at the grain of their awaits: processAssets        *)
(* (update-homebrew-tap), processUrls (compute-checksums) and the loop of  *)
(* discoverAssets (release-notes). Each awaited call is issued, is pending *)
(* for a while, and settles; result lists the items whose entry was        *)
(* written, in the order of the writes.                                    *)
(***************************************************************************)
LoopInputs ==
    {in \in TapInputs :
        in.assets.json = "object" /\ TapInputError(in) = "" /\ in.dryRun = "false"
        /\ in.version = Lit.v1_2_3}
    \cup {in \in SumsInputs :
            in.urls.json = "array" /\ ~in.files.given /\ in.urlMap.json = "missing"
            /\ in.algorithm = "sha256"}
    \cup {in \in NotesInputs : NotesInputError(in) = ""}
LoopItems(in) ==
    CASE in.action = "update-homebrew-tap" -> in.assets.entries
      [] in.action = "compute-checksums" -> in.urls.urls
      [] in.action = "release-notes" -> in.files

InitAwait ==
    /\ inputs \in LoopInputs
    /\ pc = "loop"
    /\ idx = 1
    /\ assets = <<>>
    /\ existingSha = Undefined
    /\ outputs = NoOutputs
    /\ failed = <<>>
    /\ log = {}
    /\ net = {}
    /\ api = <<>>
    /\ checksums = <<>>
    /\ result = <<>>
    /\ resolved = [source |-> "none"]
    /\ pending = {}
    /\ host = <<>>

\* The call fn(...) made in the loop body of the item at index item.
Call(item, fn) == [item |-> item, fn |-> fn]

\* x = await fn(...): the call joins the pending ones and the loop stands
\* still, at the same item, until the call settles.
AwaitDetached(rest, call) ==
    /\ pending' = rest \cup {call}
    /\ pc' = "loop"
    /\ idx' = idx + 1
Await(rest, call) ==
    /\ pending' = rest \cup {call}
    /\ pc' = "await"
    /\ idx' = idx

\* The loop body of the item reaches its end: the item's entry is written
\* and the loop goes to the next item.
Written(item) ==
    /\ result' = Append(result, item)
    /\ idx' = item + 1
    /\ pc' = "loop"

\* A loop body from its start to its first await, or to its end when it
\* awaits nothing.
LoopBody ==
    /\ pc = "loop"
    /\ idx <= Len(LoopItems(inputs))
    /\ LET item == LoopItems(inputs)[idx]
       IN  CASE inputs.action = "update-homebrew-tap" ->
                  IF ShouldFetch(item.v)
                  THEN Await(pending, Call(idx, "fetchSha256")) /\ UNCHANGED result
                  ELSE Written(idx) /\ UNCHANGED pending
             [] inputs.action = "compute-checksums" ->
                  /\ Await(pending,
                           Call(idx, IF readSha256Files(inputs) THEN "fetchSha256FromUrl"
                                     ELSE "downloadUrl"))
                  /\ UNCHANGED result
             [] inputs.action = "release-notes" ->
                  IF EndsWith(item, Lit.dot_sha256) \/ Undetected(DetectedAs[item])
                  THEN idx' = idx + 1 /\ UNCHANGED <<pc, pending, result>>
                  ELSE Await(pending, Call(idx, "getFileSize")) /\ UNCHANGED result
    /\ UNCHANGED <<inputs, host, assets, existingSha, outputs, failed, log, net, api,
                   checksums, resolved>>

\* A pending call settles and the loop body that awaited it runs on, to its
\* next await, to its end, or to the throw of downloadUrl.
Settle ==
    /\ \E call \in pending :
         LET rest == pending \ {call}
         IN  CASE call.fn \in {"fetchSha256", "readSha256"} ->
                    Written(call.item) /\ pending' = rest /\ UNCHANGED failed
               [] call.fn = "fetchSha256FromUrl" ->
                    \E side \in FetchResponses :
                      IF Truthy(fetchSha256FromUrl(side))
                      THEN Written(call.item) /\ pending' = rest /\ UNCHANGED failed
                      ELSE /\ Await(rest, Call(call.item, "downloadUrl"))
                           /\ UNCHANGED <<result, failed>>
               [] call.fn = "downloadUrl" ->
                    \E answer \in DownloadResponses :
                      IF downloadUrl(answer).threw
                      THEN /\ setFailed("Failed to download")
                           /\ pending' = rest
                           /\ UNCHANGED <<idx, result>>
                      ELSE Written(call.item) /\ pending' = rest /\ UNCHANGED failed
               [] call.fn = "getFileSize" ->
                    /\ Await(rest, Call(call.item, "readSha256"))
                    /\ UNCHANGED <<result, failed>>
    /\ UNCHANGED <<inputs, host, assets, existingSha, outputs, log, net, api,
                   checksums, resolved>>

\* The loop is over.
LoopReturn ==
    /\ pc = "loop"
    /\ idx > Len(LoopItems(inputs))
    /\ pc' = "done"
    /\ UNCHANGED <<inputs, pending, host, idx, assets, existingSha, outputs, failed, log,
                   net, api, checksums, result, resolved>>

NextAwait == LoopBody \/ Settle \/ LoopReturn
SpecAwait == InitAwait /\ [][NextAwait]_vars

\* C24: within one run at most one resolution is in flight: a pending call
\* belongs to the item the loop stands at, every earlier item is settled,
\* and the entries are written one at a time in input order, each after its
\* item's calls have settled.
C24_OneResolutionInFlight ==
    /\ Cardinality(pending) <= 1
    /\ \A call \in pending : call.item = idx /\ pc = "await"
    /\ pc = "await" => pending # {}
    /\ \A n \in 1..Len(result) :
         /\ result[n] < idx
         /\ \A m \in 1..Len(result) : n < m => result[n] < result[m]

\* The download of the second url is pending after the entry of the first
\* was written.
C24_Witness ==
    /\ inputs.action = "compute-checksums"
    /\ pending = {Call(2, "downloadUrl")}
    /\ result = <<1>>

(***************************************************************************)
(* processAssets with its assets resolved in parallel: every resolution is *)
(* started at once and each asset writes its entry when its own resolution *)
(* completes, in any order. The sidecar answers are fixed per asset        *)
(* (resolved[i] answers the sidecar fetch of the i-th raw entry), so that  *)
(* the outcome can be compared with that of the sequential loop.           *)
(***************************************************************************)
ParallelAnswers ==
    {[kind |-> "response", ok |-> FALSE, status |-> 404],
     [kind |-> "response", ok |-> TRUE, status |-> 200, body |-> HexUpper]}

\* The loop body of processAssets for one raw entry, given the answer to its
\* sidecar fetch: the mapping after the entry was written.
ResolveAsset(as, entry, answer) ==
    LET info == entry.v
        key == ToPropertyKey(normalizePlatform(entry.k))
        sha256 == IF ShouldFetch(info) THEN fetchSha256(info.url, answer).value
                  ELSE info.sha256
    IN  StoreAsset(as, key, info, sha256)

\* processAssets as the source has it: the entries one after the other, in
\* iteration order.
processAssets(raw, answers) ==
    LET RECURSIVE Loop(_, _)
        Loop(as, i) ==
            IF i > Len(raw) THEN as
            ELSE Loop(ResolveAsset(as, raw[i], answers[i]), i + 1)
    IN  Loop(<<>>, 1)

InitParallel ==
    /\ inputs \in {in \in LoopInputs : in.action = "update-homebrew-tap"}
    /\ pc = "await-all"
    /\ idx = 0
    /\ assets = <<>>
    /\ existingSha = Undefined
    /\ outputs = NoOutputs
    /\ failed = <<>>
    /\ log = {}
    /\ net = {}
    /\ api = <<>>
    /\ checksums = <<>>
    /\ result = <<>>
    /\ resolved \in [1..Len(rawAssets) -> ParallelAnswers]
    /\ pending = {Call(i, "resolve") : i \in 1..Len(rawAssets)}
    /\ host = <<>>

\* The resolution of one asset completes, and its entry is written.
ParallelSettle ==
    /\ pc = "await-all"
    /\ \E call \in pending :
         /\ assets' = ResolveAsset(assets, rawAssets[call.item], resolved[call.item])
         /\ result' = Append(result, call.item)
         /\ pending' = pending \ {call}
    /\ UNCHANGED <<inputs, host, pc, idx, existingSha, outputs, failed, log, net, api,
                   checksums, resolved>>

\* Every resolution has completed.
ParallelReturn ==
    /\ pc = "await-all"
    /\ pending = {}
    /\ pc' = "done"
    /\ UNCHANGED <<inputs, pending, host, idx, assets, existingSha, outputs, failed, log,
                   net, api, checksums, result, resolved>>

NextParallel == ParallelSettle \/ ParallelReturn
SpecParallel == InitParallel /\ [][NextParallel]_vars

\* A mapping as the set of its entries, whatever the order of its keys.
Entries(obj) == {obj[n] : n \in 1..Len(obj)}
SequentialAssets == processAssets(rawAssets, resolved)
\* No two raw keys are stored under the same key.
NoCollision ==
    \A i, j \in 1..Len(rawAssets) : i # j => CanonicalKey(i) # CanonicalKey(j)
\* The entry the i-th raw entry writes.
EntryOf(i) ==
    LET info == rawAssets[i].v
        sha256 == IF NeedsFetch(i) THEN fetchSha256(info.url, resolved[i]).value
                  ELSE info.sha256
    IN  [k |-> CanonicalKey(i), v |-> [info EXCEPT !.sha256 = sha256]]

\* C25 as stated: whatever the order in which the resolutions complete, the
\* parallel processAssets ends with the mapping of the sequential loop.
C25_ParallelEqualsSequential ==
    pc = "done" => Entries(assets) = Entries(SequentialAssets)

\* C25 as amended: the parallel processAssets ends with the mapping of the
\* sequential loop whenever no two raw keys normalize to the same key; when
\* raw keys collide, the key holds the entry of the colliding asset whose
\* resolution completed last.
C25_EqualUnlessCollision ==
    pc = "done" =>
        /\ NoCollision => Entries(assets) = Entries(SequentialAssets)
        /\ {e.k : e \in Entries(assets)} = {e.k : e \in Entries(SequentialAssets)}
        /\ Len(assets) = Cardinality(Entries(assets))
        /\ \A i \in 1..Len(rawAssets) :
             (\A n \in 1..Len(result) :
                 (result[n] = i) =>
                    \A m \in (n + 1)..Len(result) :
                        CanonicalKey(result[m]) # CanonicalKey(i))
             => EntryOf(i) \in Entries(assets)

\* Two assets that normalize to different keys completed in the reverse of
\* their input order, one of them after its sidecar was fetched.
C25_Witness ==
    /\ pc = "done"
    /\ result = <<2, 1>>
    /\ NoCollision
    /\ \E i \in 1..2 : ShouldFetch(rawAssets[i].v) /\ Truthy(EntryOf(i).v.sha256)
    /\ Entries(assets) = Entries(SequentialAssets)

(***************************************************************************)
(* Concurrent runs of update-homebrew-tap on one formula path: each run is *)
(* in updateTapRepo, and pc, existingSha, failed and outputs hold one      *)
(* value per run. host lists the commits made to the formula path; the     *)
(* file's revision is the number of the last one.                          *)
(***************************************************************************)
MaxRuns == 2
Runs == 1..MaxRuns

\* The tap repository's side of the calls: the lookup answers with the
\* file's revision, or 404 when the path holds nothing; the write is a
\* conditional update, accepted only when it carries the file's revision
\* (none when the path holds nothing).
HostRevision(commits) ==
    IF commits = <<>> THEN Undefined ELSE Str(<<Len(commits)>>)
HostGetContent(commits) ==
    IF commits = <<>> THEN [kind |-> "error", status |-> 404]
    ELSE [kind |-> "file", sha |-> <<Len(commits)>>]
HostCreateOrUpdate(commits, sha) ==
    IF sha = HostRevision(commits)
    THEN [kind |-> "ok", sha |-> <<"commit", Len(commits) + 1>>]
    ELSE [kind |-> "error", status |-> IF sha = Undefined THEN 422 ELSE 409]

\* if (!Array.isArray(existingFile) && existingFile.type === "file")
\*     existingSha = existingFile.sha
ExistingFileShaDropped(existingFile) == Undefined
ExistingFileSha(existingFile) ==
    IF existingFile.kind = "file" THEN Str(existingFile.sha) ELSE Undefined

InitRuns ==
    /\ inputs = [action |-> "update-homebrew-tap", runs |-> Runs]
    /\ pc = [r \in Runs |-> "updateTapRepo"]
    /\ idx = 0
    /\ assets = <<>>
    /\ existingSha = [r \in Runs |-> Undefined]
    /\ outputs = [r \in Runs |-> NoOutputs]
    /\ failed = [r \in Runs |-> <<>>]
    /\ log = {}
    /\ net = {}
    /\ api = <<>>
    /\ checksums = <<>>
    /\ result = <<>>
    /\ resolved = [source |-> "none"]
    /\ pending = {}
    /\ host \in {<<>>, <<[by |-> 0, replaced |-> Undefined]>>}

\* updateTapRepo of one run, the lookup: the host answers, or the call
\* fails (403, or no status at all); the catch swallows a 404 alone.
RunGetContent ==
    \E r \in Runs :
      /\ pc[r] = "updateTapRepo"
      /\ \E resp \in {HostGetContent(host)}
                       \cup {[kind |-> "error", status |-> st] : st \in {403, 0}} :
           /\ api' = Append(api, [run |-> r, call |-> ApiCall("getContent", Undefined, resp)])
           /\ IF resp.kind = "error" /\ ~LookupErrorSwallowed(resp.status)
              THEN /\ failed' = [failed EXCEPT ![r] = Append(@, "getContent failed")]
                   /\ pc' = [pc EXCEPT ![r] = "done"]
                   /\ UNCHANGED existingSha
              ELSE /\ existingSha' = [existingSha EXCEPT ![r] = ExistingFileSha(resp)]
                   /\ pc' = [pc EXCEPT ![r] = "createOrUpdate"]
                   /\ UNCHANGED failed
      /\ UNCHANGED <<inputs, pending, host, idx, assets, outputs, log, net, checksums,
                     result, resolved>>

\* updateTapRepo of one run, the write, and run() to its end: the write
\* carries the revision the run's lookup found, and the host commits it or
\* rejects it, or the call fails (500) and nothing is committed.
RunCreateOrUpdate ==
    \E r \in Runs :
      /\ pc[r] = "createOrUpdate"
      /\ \E resp \in {HostCreateOrUpdate(host, existingSha[r]),
                       [kind |-> "error", status |-> 500]} :
             /\ api' = Append(api, [run |-> r,
                                    call |-> ApiCall("createOrUpdateFileContents",
                                                     existingSha[r], resp)])
             /\ pc' = [pc EXCEPT ![r] = "done"]
             /\ IF resp.kind = "error"
                THEN /\ failed' = [failed EXCEPT
                                     ![r] = Append(@, "createOrUpdateFileContents failed")]
                     /\ UNCHANGED <<outputs, host>>
                ELSE /\ host' = Append(host, [by |-> r, replaced |-> existingSha[r]])
                     /\ outputs' = [outputs EXCEPT
                                      ![r] = setOutput(@, "commit-sha", resp.sha)]
                     /\ UNCHANGED failed
      /\ UNCHANGED <<inputs, pending, idx, assets, existingSha, log, net, checksums,
                     result, resolved>>

NextRuns == RunGetContent \/ RunCreateOrUpdate
SpecRuns == InitRuns /\ [][NextRuns]_vars

\* The calls of the log that are writes, those the host accepted, and the
\* lookup a run made before its write.
IsWrite(n) == api[n].call.op = "createOrUpdateFileContents"
Accepted(n) == IsWrite(n) /\ api[n].call.answer.kind = "ok"
LookupOf(n) ==
    CHOOSE m \in 1..n : api[m].run = api[n].run /\ api[m].call.op = "getContent"
\* Another run's write was committed between the lookup and the write.
Stale(n) ==
    \E k \in (LookupOf(n) + 1)..(n - 1) : Accepted(k) /\ api[k].run # api[n].run

\* C23: with runs of update-homebrew-tap interleaved on one formula path,
\* each write carries the revision its own run's lookup answered (none after
\* a 404); a write based on a stale revision is rejected and its run fails;
\* every committed write replaces the revision its run looked up, so no
\* commit is overwritten by a run that did not observe it.
C23_NoLostUpdate ==
    \A n \in 1..Len(api) :
        IsWrite(n) =>
            LET r == api[n].run
                found == api[LookupOf(n)].call.answer
            IN  /\ api[n].call.sha =
                     (IF found.kind = "file" THEN Str(found.sha) ELSE Undefined)
                /\ Stale(n) =>
                     /\ ~Accepted(n)
                     /\ pc[r] = "done"
                     /\ failed[r] # <<>>
                     /\ "commit-sha" \notin DOMAIN outputs[r]
                /\ Accepted(n) =>
                     \E c \in 1..Len(host) :
                        /\ host[c].by = r
                        /\ host[c].replaced = HostRevision(SubSeq(host, 1, c - 1))
                        /\ host[c].replaced = api[n].call.sha

\* Two runs looked up the same existing revision; one committed, and the
\* write of the other was then rejected, so that this run failed.
C23_Witness ==
    \E n, m \in 1..Len(api) :
        /\ n < m
        /\ Accepted(n)
        /\ IsWrite(m)
        /\ api[m].run # api[n].run
        /\ LookupOf(m) < n
        /\ api[m].call.sha = api[n].call.sha
        /\ api[m].call.sha # Undefined
        /\ api[m].call.answer.kind = "error"
        /\ failed[api[m].run] # <<>>

====
